---- MODULE Spec2Model ----
(***************************************************************************)
(* daily-web-brief: the persistent stores of storage.py (source_health,    *)
(* seen) and the funnel of main.py / fetcher.py that reads and writes them.*)
(*                                                                         *)
(* Nine specifications share the operators:                                *)
(*   SpecHealth  any sequence of source-health calls, with a clock         *)
(*   SpecSeen    any sequence of dedup-store calls                         *)
(*   SpecEmbed   any sequence of embedding-cache calls                     *)
(*   SpecFetch   one batch of article body fetches behind the semaphore    *)
(*   SpecWriters concurrent tasks writing to the stores, by statement      *)
(*   SpecScore   recency_score on the times of a small clock               *)
(*   Spec        runs of the pipeline main.run() under every outcome of    *)
(*               the feeds, body fetches and embedding requests, the LLM   *)
(*               calls and the sends succeeding                            *)
(*   SpecDeliver runs of the pipeline in which all of those succeed, under *)
(*               every outcome of the LLM calls and of the sends           *)
(*   SpecFunnel  runs of the pipeline with one topic or with none, under   *)
(*               every outcome of the feeds and of the body fetches        *)
(*                                                                         *)
(* Times are whole seconds, as int(time.time()). A run is short against    *)
(* the clock: in Spec time moves between runs, not inside one. Scores are  *)
(* integers: keyword scores in hundredths, the others in thousandths.      *)
(***************************************************************************)
EXTENDS Integers, Sequences, FiniteSets, TLC

\* ------------------------------------------------------------------ bounds
\* clock advances allowed in a behaviour of SpecHealth
MaxTicks == 2
\* record_source_failure is not called on a row whose counter reached this
MaxFailures == 6
\* mark_seen calls in a behaviour of SpecSeen
MaxCalls == 4
\* pipeline runs in a behaviour of Spec
MaxRuns == 2
\* embedding-cache calls in a behaviour of SpecEmbed
MaxEmbedCalls == 3
\* candidates in the batch of SpecFetch
MaxBatch == 6
\* texts in one get_embeddings_batch call of SpecEmbed
MaxTexts == 2
\* concurrent tasks that write to the stores in SpecWriters
MaxWriters == 3
\* the latest time, in seconds, of a recency_score call of SpecScore
MaxClock == 12

\* --------------------------------------------------------- program constants
\* SQL NULL of a timestamp column (timestamps are >= 0)
NULL == -1
\* record_source_failure(..., disable_after_n: int = 5)
DISABLE_AFTER_N == 5
\* disabled_until = now + 24 * 3600
COOLDOWN_SECS == 24 * 3600

\* cfg["topics"], lower-cased
Topics == {"ai"}
TopicList == <<"ai">>
\* the topics of a list, as "for t in topics" goes through them (no topic is
\* listed twice)
TopicSet(list) == {list[i] : i \in 1..Len(list)}

Sources == {"s1", "s2"}
\* the clock moves by a second, or to just before / exactly a cool-down later
TickSteps == {1, COOLDOWN_SECS - 1}

VARIABLES
    now,            \* int(time.time())
    source_health,  \* table source_health: url -> row
    hist,           \* per source: the calls made so far (observer of SpecHealth)
    probe,          \* the is_source_disabled call just made and what it returned
    ticks,          \* clock advances so far
    seen,           \* table seen: a set of rows, url the primary key
    seen_call,      \* the mark_seen call just made (observer of SpecSeen)
    embeddings,     \* table embeddings: a set of rows, cache_key the primary key
    embed_call,     \* the embedding-cache call just made (observer of SpecEmbed)
    fetch,          \* per candidate of a batch: its _fetch_one task (SpecFetch)
    sem,            \* asyncio.Semaphore(5): the permits left
    calls,          \* the paid calls made for articles so far, in order
    pc,             \* where main.run() stands
    run,            \* runs started so far
    has_key,        \* OPENAI_API_KEY is set (openai_client is not None)
    feeds,          \* stage 1: per source, its _fetch_one task
    funnel,         \* the lists run() builds, stage by stage
    start,          \* the tables as the run found them
    disk,           \* the committed tables, as a new connection reads them
    score_call,     \* the recency_score call just made (observer of SpecScore)
    writers,        \* the storage calls of concurrent tasks (SpecWriters)
    cfg_topics      \* cfg["topics"], lower-cased, in order

\* the observers of SpecHealth and of SpecSeen
healthObs == <<hist, probe, ticks>>
seenObs == <<seen_call>>
embedObs == <<embed_call>>

fetchVars == <<fetch, sem>>
scoreObs == <<score_call>>
writerVars == <<writers>>
configVars == <<cfg_topics>>

runVars == <<pc, run, has_key, feeds, funnel, start, disk, calls>>

vars == <<now, source_health, seen, embeddings, healthObs, seenObs, embedObs,
          fetchVars, runVars,
          scoreObs, writerVars, configVars>>

\* ------------------------------------------------------------ source_health
\* a url with no row in source_health
NoHealthRow ==
    [present |-> FALSE, consecutive_failures |-> 0, last_failure_ts |-> NULL,
     last_success_ts |-> NULL, disabled_until_ts |-> NULL]

\* the deadline compared with <= : the breaker stays closed one second longer
is_source_disabled_le(h, url, t) ==
    /\ h[url].present
    /\ h[url].disabled_until_ts # NULL
    /\ t <= h[url].disabled_until_ts

\* the row is read but the answer is always False
is_source_disabled_never(h, url, t) == FALSE

\* SELECT disabled_until_ts ...; row and row[0] is not None and now < row[0]
is_source_disabled(h, url, t) ==
    /\ h[url].present
    /\ h[url].disabled_until_ts # NULL
    /\ t < h[url].disabled_until_ts

\* the conflict branch forgets to clear the deadline
record_source_success_keeps_deadline(h, url, t) ==
    [h EXCEPT ![url] =
        [present |-> TRUE,
         consecutive_failures |-> 0,
         last_failure_ts |-> h[url].last_failure_ts,
         last_success_ts |-> t,
         disabled_until_ts |-> h[url].disabled_until_ts]]

\* INSERT ... VALUES (?, 0, ?, NULL) ON CONFLICT(url) DO UPDATE SET
\*   consecutive_failures = 0, last_success_ts = ..., disabled_until_ts = NULL
record_source_success(h, url, t) ==
    [h EXCEPT ![url] =
        [present |-> TRUE,
         consecutive_failures |-> 0,
         last_failure_ts |-> h[url].last_failure_ts,
         last_success_ts |-> t,
         disabled_until_ts |-> NULL]]

\* INSERT ... VALUES (?, 1, ?) ON CONFLICT(url) DO UPDATE SET
\*   consecutive_failures = consecutive_failures + 1, last_failure_ts = ...
upsert_failure(h, url, t) ==
    [h EXCEPT ![url] =
        IF h[url].present
        THEN [h[url] EXCEPT !.consecutive_failures = @ + 1, !.last_failure_ts = t]
        ELSE [present |-> TRUE, consecutive_failures |-> 1, last_failure_ts |-> t,
              last_success_ts |-> NULL, disabled_until_ts |-> NULL]]

\* the threshold compared with = : the deadline is set on reaching it only
should_disable_exactly(count, disable_after_n) == count = disable_after_n

\* the threshold compared with > : one failure late
should_disable_late(count, disable_after_n) == count > disable_after_n

\* the threshold off by one: one failure early
should_disable_early(count, disable_after_n) == count + 1 >= disable_after_n

\* if row and row[0] >= disable_after_n
should_disable(count, disable_after_n) == count >= disable_after_n

\* the upsert, then the SELECT of the counter, then the UPDATE of the deadline
record_source_failure(h, url, disable_after_n, t) ==
    LET h1 == upsert_failure(h, url, t) IN
    IF should_disable(h1[url].consecutive_failures, disable_after_n)
    THEN [h1 EXCEPT ![url].disabled_until_ts = t + COOLDOWN_SECS]
    ELSE h1

\* the third statement: UPDATE source_health SET disabled_until_ts = now + 24h
set_disabled_until(h, url, t) ==
    [h EXCEPT ![url].disabled_until_ts = t + COOLDOWN_SECS]

\* --------------------------------------------------------------------- seen
Urls == {"uA", "uB"}
Titles == {"tA", "tB"}
Texts == {"x", "y"}
\* hashlib.sha256(text.encode("utf-8")).hexdigest(): distinct texts are taken
\* to have distinct digests
Sha256(text) == <<"sha256", text>>
Hashes == {Sha256(t) : t \in Texts}

\* SELECT 1 FROM seen WHERE url = ?
is_url_seen(tbl, url) == \E r \in tbl : r.url = url

\* SELECT 1 FROM seen WHERE content_hash = ?
is_hash_seen(tbl, content_hash) == \E r \in tbl : r.content_hash = content_hash

\* INSERT OR REPLACE in place of INSERT OR IGNORE: the old row is overwritten
mark_seen_replace(tbl, url, title, content_hash, ts) ==
    [rows |-> {r \in tbl : r.url # url} \cup
              {[url |-> url, title |-> title, content_hash |-> content_hash,
                first_seen_ts |-> ts]},
     raised |-> FALSE]

\* INSERT OR IGNORE INTO seen(url, title, content_hash, first_seen_ts): a row
\* whose url is already there is left as it is and nothing is raised
mark_seen(tbl, url, title, content_hash, ts) ==
    [rows |-> IF \E r \in tbl : r.url = url
              THEN tbl
              ELSE tbl \cup {[url |-> url, title |-> title,
                              content_hash |-> content_hash, first_seen_ts |-> ts]},
     raised |-> FALSE]


\* --------------------------------------------------- embeddings (storage.py)
\* ranking.embedding_model
EmbeddingModel == "m"

\* the coordinates of a vector (floats), and what json.dumps writes for one
\* and json.loads reads back
Floats == {0, 1, 2}
FloatRepr(x) == CASE x = 0 -> "0.0" [] x = 1 -> "1.0" [] OTHER -> "2.0"
FloatParse(str) == CHOOSE x \in Floats : FloatRepr(x) = str

\* json.dumps(vector): the TEXT of the vector column
json_dumps(vector) == [i \in 1..Len(vector) |-> FloatRepr(vector[i])]
\* json.loads(row[0])
json_loads(str) == [i \in 1..Len(str) |-> FloatParse(str[i])]

\* SELECT vector FROM embeddings WHERE cache_key = ?; found is "row is there"
\* (the caller's "cached is not None"), vector is json.loads of the column
get_cached_embedding(tbl, cache_key) ==
    IF \E r \in tbl : r.cache_key = cache_key
    THEN [found |-> TRUE,
          vector |-> json_loads((CHOOSE r \in tbl : r.cache_key = cache_key).vector)]
    ELSE [found |-> FALSE, vector |-> <<>>]

\* INSERT OR IGNORE in place of INSERT OR REPLACE: the first vector stays
set_cached_embedding_ignore(tbl, cache_key, model, vector, t) ==
    IF \E r \in tbl : r.cache_key = cache_key
    THEN tbl
    ELSE tbl \cup {[cache_key |-> cache_key, model |-> model,
                    vector |-> json_dumps(vector), created_ts |-> t]}

\* INSERT OR REPLACE INTO embeddings(cache_key, model, vector, created_ts):
\* a row with this key is deleted, then the new row is inserted
set_cached_embedding(tbl, cache_key, model, vector, t) ==
    {r \in tbl : r.cache_key # cache_key} \cup
    {[cache_key |-> cache_key, model |-> model,
      vector |-> json_dumps(vector), created_ts |-> t]}

\* ------------------------------------------------------ embeddings (scorer.py)
\* text[:n]. "L1" and "L2" are longer than 500 characters, shorter than 2000,
\* and agree on their first 500, "Lp"; every other text is shorter than 500
Truncate(text, n) == IF text \in {"L1", "L2"} /\ n <= 500 THEN "Lp" ELSE text

\* the key taken of the whole text
_cache_key_whole_text(model, text) == Sha256(<<model, ":", text>>)

\* _cache_key(model, text): sha256 of model + ":" + text[:500]
_cache_key(model, text) == Sha256(<<model, ":", Truncate(text, 500)>>)

\* resp.data[j].embedding for the input text: what the provider answers
ProviderVector(text) ==
    CASE text = "x" -> <<1, 0>>
      [] text = "y" -> <<0, 1>>
      [] text = "L1" -> <<2, 0>>
      [] text = "L2" -> <<0, 2>>
      [] text = "ai" -> <<1, 1>>
      [] OTHER -> <<2, 2>>

\* one request per missed text in place of one for all
provider_requests_each(miss_texts) == [j \in 1..Len(miss_texts) |-> <<miss_texts[j]>>]

\* if miss_indices: client.embeddings.create(input=miss_texts, model=model)
provider_requests(miss_texts) == IF miss_texts = <<>> THEN <<>> ELSE <<miss_texts>>

\* the provider's vectors written from the front of results, not at idx
fill_results_packed(cached, miss_indices, resp) ==
    [i \in 1..Len(cached) |->
        IF i <= Len(resp) THEN resp[i] ELSE cached[i].vector]

\* results[i] = cached for a hit; results[idx] = resp.data[j].embedding for
\* j, idx in enumerate(miss_indices)
fill_results(cached, miss_indices, resp) ==
    [i \in 1..Len(cached) |->
        IF cached[i].found THEN cached[i].vector
        ELSE resp[CHOOSE j \in 1..Len(miss_indices) : miss_indices[j] = i]]

\* for j, idx in enumerate(miss_indices): set_cached_embedding(db, keys[idx], ...)
RECURSIVE store_all(_, _, _, _)
store_all(tbl, writes, model, t) ==
    IF writes = <<>> THEN tbl
    ELSE store_all(set_cached_embedding(tbl, Head(writes).cache_key, model,
                                        Head(writes).vector, t),
                   Tail(writes), model, t)

\* get_embeddings_batch(client, texts, db, model). provider_ok: the request,
\* if one is made, is answered; else it raises and so does the function.
\* The value: raised; requests, the inputs of the requests made; misses, the
\* positions sent; results; writes, the set_cached_embedding calls made; rows,
\* the table afterwards
get_embeddings_batch(tbl, texts, model, provider_ok, t) ==
    LET n == Len(texts)
        keys == [i \in 1..n |-> _cache_key(model, texts[i])]
        cached == [i \in 1..n |-> get_cached_embedding(tbl, keys[i])]
        miss_indices == SelectSeq([i \in 1..n |-> i], LAMBDA i : ~cached[i].found)
        miss_texts == [j \in 1..Len(miss_indices) |-> texts[miss_indices[j]]]
        requests == provider_requests(miss_texts)
        answered == requests = <<>> \/ provider_ok
        resp == [j \in 1..Len(miss_texts) |-> ProviderVector(miss_texts[j])]
        writes == [j \in 1..Len(miss_indices) |->
                     [cache_key |-> keys[miss_indices[j]], vector |-> resp[j]]]
    IN [raised |-> ~answered,
        requests |-> requests,
        misses |-> miss_indices,
        results |-> IF answered THEN fill_results(cached, miss_indices, resp) ELSE <<>>,
        writes |-> IF answered THEN writes ELSE <<>>,
        rows |-> IF answered THEN store_all(tbl, writes, model, t) ELSE tbl]

\* ---------------------------------------------------------------- SpecHealth
NoProbe == [url |-> "none", result |-> FALSE, at |-> 0, row |-> NoHealthRow]

NoSeenCall ==
    [n |-> 0, url |-> "none", title |-> "none", content_hash |-> <<>>, ts |-> 0,
     dup |-> FALSE, raised |-> FALSE]

\* get_embeddings_batch not called
NoBatch ==
    [raised |-> FALSE, requests |-> <<>>, misses |-> <<>>, results |-> <<>>,
     writes |-> <<>>, rows |-> {}]

NoEmbedCall ==
    [n |-> 0, op |-> "none", cache_key |-> <<>>, vector |-> <<>>, found |-> FALSE,
     texts |-> <<>>, before |-> {}, batch |-> NoBatch, replaced |-> FALSE]

\* asyncio.Semaphore(5)
NoScoreCall == [n |-> 0, published |-> NULL, now_dt |-> 0, max_age |-> 1, result |-> 0]
SEM_CAPACITY == 5
\* run_in_executor(None, ...): the loop's default thread pool, of
\* min(32, cpu_count + 4) workers; the smallest pool, which lets the fewest
\* downloads run at once
EXECUTOR_WORKERS == 5
\* for attempt, delay in enumerate([0] + delays), delays = [1, 2, 4]
Delays == <<0, 1, 2, 4>>

\* the tables as init_db creates them, and no call made yet
InitStores ==
    /\ now = 0
    /\ source_health = [s \in Sources |-> NoHealthRow]
    /\ seen = {}
    /\ embeddings = {}

InitObs ==
    /\ ticks = 0
    /\ hist = [s \in Sources |->
                [streak |-> 0, last |-> "none", at |-> 0, was_disabled |-> FALSE]]
    /\ probe = NoProbe
    /\ seen_call = NoSeenCall
    /\ embed_call = NoEmbedCall
    /\ score_call = NoScoreCall

\* no storage call of a task under way
InitNoWriters == writers = <<>>

\* cfg["topics"] of config.yaml: one topic
InitConfig == cfg_topics = TopicList

\* no batch of body fetches under way, every permit free
InitNoFetch ==
    /\ fetch = <<>>
    /\ sem = SEM_CAPACITY

\* no run of the pipeline is under way
NoFeedTask == [task |-> "idle", outcome |-> "none", result |-> <<>>,
               successes |-> 0, failures |-> 0]

EmptyFunnel ==
    [all_articles |-> <<>>, unseen |-> <<>>, top_candidates |-> <<>>,
     content |-> <<>>, with_content |-> <<>>, hash_deduped |-> <<>>,
     scored_articles |-> <<>>, to_summarize |-> <<>>, summaries |-> <<>>,
     summarized |-> <<>>, report |-> <<>>,
     delivery |-> [email |-> [task |-> "idle", result |-> FALSE, attempts |-> 0],
                   slack |-> [task |-> "idle", result |-> FALSE, attempts |-> 0]],
     delivery_results |-> [email |-> FALSE, slack |-> FALSE],
     raised |-> "none", saved |-> FALSE, finished |-> <<>>]

InitNoRun ==
    /\ pc = "idle"
    /\ run = 0
    /\ has_key = FALSE
    /\ feeds = [s \in Sources |-> NoFeedTask]
    /\ funnel = EmptyFunnel
    /\ start = [seen |-> {}, source_health |-> [s \in Sources |-> NoHealthRow],
                embeddings |-> {}]
    /\ disk = [seen |-> {}, source_health |-> [s \in Sources |-> NoHealthRow],
               embeddings |-> {}]
    /\ calls = <<>>

InitHealth == InitStores /\ InitObs /\ InitNoFetch /\ InitNoRun /\ InitNoWriters
              /\ InitConfig

\* a caller runs record_source_failure(db, url) with the default threshold
HRecordFailure(s) ==
    /\ source_health[s].consecutive_failures < MaxFailures
    /\ source_health' = record_source_failure(source_health, s, DISABLE_AFTER_N, now)
    /\ hist' = [hist EXCEPT ![s] =
                 [streak |-> @.streak + 1, last |-> "failure", at |-> now,
                  was_disabled |-> is_source_disabled(source_health, s, now)]]
    /\ probe' = NoProbe
    /\ UNCHANGED <<now, ticks, seen, seenObs, embeddings, embedObs,
                   fetchVars, runVars, scoreObs, writerVars, configVars>>

\* a caller runs record_source_success(db, url)
HRecordSuccess(s) ==
    /\ source_health' = record_source_success(source_health, s, now)
    /\ hist' = [hist EXCEPT ![s] =
                 [streak |-> 0, last |-> "success", at |-> now,
                  was_disabled |-> is_source_disabled(source_health, s, now)]]
    /\ probe' = NoProbe
    /\ UNCHANGED <<now, ticks, seen, seenObs, embeddings, embedObs,
                   fetchVars, runVars, scoreObs, writerVars, configVars>>

\* a caller runs is_source_disabled(db, url): a SELECT, no write
HIsDisabled(s) ==
    /\ probe' = [url |-> s, result |-> is_source_disabled(source_health, s, now),
                 at |-> now, row |-> source_health[s]]
    /\ UNCHANGED <<now, ticks, source_health, hist, seen, seenObs, embeddings, embedObs,
                   fetchVars, runVars, scoreObs, writerVars, configVars>>

\* time passes
HTick(d) ==
    /\ ticks < MaxTicks
    /\ ticks' = ticks + 1
    /\ now' = now + d
    /\ probe' = NoProbe
    /\ UNCHANGED <<source_health, hist, seen, seenObs, embeddings, embedObs,
                   fetchVars, runVars, scoreObs, writerVars, configVars>>

NextHealth ==
    \/ \E s \in Sources : HRecordFailure(s)
    \/ \E s \in Sources : HRecordSuccess(s)
    \/ \E s \in Sources : HIsDisabled(s)
    \/ \E d \in TickSteps : HTick(d)

SpecHealth == InitHealth /\ [][NextHealth]_vars

\* ------------------------------------------------------------------ SpecSeen
InitSeen == InitStores /\ InitObs /\ InitNoFetch /\ InitNoRun /\ InitNoWriters
            /\ InitConfig

\* a caller runs mark_seen(db, url, title, content_hash, ts)
SMarkSeen(url, title, content_hash, ts) ==
    LET res == mark_seen(seen, url, title, content_hash, ts) IN
    /\ seen_call.n < MaxCalls
    /\ seen' = res.rows
    /\ seen_call' = [n |-> seen_call.n + 1, url |-> url, title |-> title,
                     content_hash |-> content_hash, ts |-> ts,
                     dup |-> \E r \in seen : r.url = url,
                     raised |-> res.raised]
    /\ UNCHANGED <<now, source_health, healthObs, embeddings, embedObs,
                   fetchVars, runVars, scoreObs, writerVars, configVars>>

NextSeen ==
    \E url \in Urls, title \in Titles, h \in Hashes, ts \in {0, 1} :
        SMarkSeen(url, title, h, ts)

SpecSeen == InitSeen /\ [][NextSeen]_vars

\* ----------------------------------------------------------------- SpecEmbed
\* the texts callers embed, the keys they map to, the vectors callers store
EmbedTexts == {"x", "L1", "L2"}
EmbedKeys == {_cache_key(EmbeddingModel, t) : t \in EmbedTexts}
EmbedVectors == {<<1, 0>>, <<0, 2>>}

RECURSIVE SeqsUpTo(_, _)
SeqsUpTo(S, n) ==
    IF n = 0 THEN {<<>>}
    ELSE LET shorter == SeqsUpTo(S, n - 1)
         IN shorter \cup {Append(q, x) : q \in shorter, x \in S}

InitEmbed == InitStores /\ InitObs /\ InitNoFetch /\ InitNoRun /\ InitNoWriters
             /\ InitConfig

\* a caller runs set_cached_embedding(db, cache_key, model, vector)
ESetCached(cache_key, vector) ==
    /\ embed_call.n < MaxEmbedCalls
    /\ embeddings' = set_cached_embedding(embeddings, cache_key, EmbeddingModel,
                                          vector, now)
    /\ embed_call' = [NoEmbedCall EXCEPT
            !.n = embed_call.n + 1, !.op = "set", !.cache_key = cache_key,
            !.vector = vector, !.before = embeddings,
            !.replaced = embed_call.replaced
                         \/ \E r \in embeddings : /\ r.cache_key = cache_key
                                                  /\ r.vector # json_dumps(vector)]
    /\ UNCHANGED <<now, source_health, seen, healthObs, seenObs, fetchVars, runVars,
                   scoreObs, writerVars, configVars>>

\* a caller runs get_cached_embedding(db, cache_key): a SELECT, no write
EGetCached(cache_key) ==
    LET got == get_cached_embedding(embeddings, cache_key) IN
    /\ embed_call.n < MaxEmbedCalls
    /\ embed_call' = [NoEmbedCall EXCEPT
            !.n = embed_call.n + 1, !.op = "get", !.cache_key = cache_key,
            !.vector = got.vector, !.found = got.found, !.before = embeddings,
            !.replaced = embed_call.replaced]
    /\ UNCHANGED <<now, source_health, seen, embeddings, healthObs, seenObs,
                   fetchVars, runVars, scoreObs, writerVars, configVars>>

\* a caller runs get_embeddings_batch(client, texts, db, model)
EBatch(texts, provider_ok) ==
    LET res == get_embeddings_batch(embeddings, texts, EmbeddingModel, provider_ok, now) IN
    /\ embed_call.n < MaxEmbedCalls
    /\ embeddings' = res.rows
    /\ embed_call' = [NoEmbedCall EXCEPT
            !.n = embed_call.n + 1, !.op = "batch", !.texts = texts,
            !.before = embeddings, !.batch = res,
            !.replaced = embed_call.replaced]
    /\ UNCHANGED <<now, source_health, seen, healthObs, seenObs, fetchVars, runVars,
                   scoreObs, writerVars, configVars>>

NextEmbed ==
    \/ \E k \in EmbedKeys, v \in EmbedVectors : ESetCached(k, v)
    \/ \E k \in EmbedKeys : EGetCached(k)
    \/ \E texts \in SeqsUpTo(EmbedTexts, MaxTexts), ok \in BOOLEAN : EBatch(texts, ok)

SpecEmbed == InitEmbed /\ [][NextEmbed]_vars

\* ----------------------------------------------------------------- SpecFetch
\* fetch_full_content_batch on a batch of candidates. The tasks of a batch
\* run the same code on their own candidate, so fetch counts the tasks at
\* each position <<where, GET attempts started>> of extract_main_text_async
\* (a task that returned text or None after a page came is counted at 0):
\*   queued     the task waits for an executor thread
\*   download   trafilatura.fetch_url runs in a thread (primary)
\*   wait       in polite_get_async, waiting to enter "async with semaphore"
\*   pause      holding a permit, in asyncio.sleep (0.3 s, or a back-off)
\*   get        holding a permit, client.get in flight
\*   text       returned the body text
\*   none       returned None: the page came but its text was not usable
\*   gave_up    returned None: polite_get_async raised after its last attempt
\*   raised     an exception left _fetch_one
Places == {"queued", "download", "wait", "pause", "get", "text", "none",
           "gave_up", "raised"}
Positions == Places \X (0..(Len(Delays) + 1))
Returned == {p \in Positions : p[1] \in {"text", "none", "gave_up", "raised"}}

\* one task goes from a position to another
Move(f, from, to) ==
    IF from = to THEN f ELSE [f EXCEPT ![from] = @ - 1, ![to] = @ + 1]

\* the loop goes round once more than the list of delays is long
after_failure_one_more(attempt) ==
    IF attempt < Len(Delays) + 1 THEN <<"pause", attempt>> ELSE <<"gave_up", attempt>>

\* except Exception: last_exc = exc; the next round of the loop sleeps, and
\* after the last round "raise last_exc" leaves polite_get_async, which
\* extract_main_text_async catches and turns into None
after_failure(attempt) ==
    IF attempt < Len(Delays) THEN <<"pause", attempt>> ELSE <<"gave_up", attempt>>

\* where a task goes when its GET ends: "text", the page came and its text is
\* long and clean; "short", it came and the text is not; "error", the GET or
\* raise_for_status raised
GetOutcomes == {"text", "short", "error"}
after_get(attempt, outcome) ==
    CASE outcome = "text" -> <<"text", 0>>
      [] outcome = "short" -> <<"none", 0>>
      [] OTHER -> after_failure(attempt)

\* the permit is kept by a task that gave up
permits_after_get_leaky(permits, to) ==
    IF to[1] \in {"pause", "gave_up"} THEN permits ELSE permits + 1

\* the end of "async with semaphore": the permit is given back when
\* polite_get_async returns or raises, and kept while the loop goes on to
\* the sleep before the next attempt
permits_after_get(permits, to) == IF to[1] = "pause" THEN permits ELSE permits + 1

\* fetch_full_content_batch is called with n candidates: gather creates the
\* tasks and each asks the executor for its download
InitFetch ==
    /\ InitStores /\ InitObs /\ InitNoRun /\ InitNoWriters /\ InitConfig
    /\ sem = SEM_CAPACITY
    /\ \E n \in 1..MaxBatch :
          fetch = [p \in Positions |-> IF p = <<"queued", 0>> THEN n ELSE 0]

\* a thread of the pool takes the download of a waiting task
FDownloadStart ==
    /\ fetch[<<"queued", 0>>] > 0
    /\ fetch[<<"download", 0>>] < EXECUTOR_WORKERS
    /\ fetch' = Move(fetch, <<"queued", 0>>, <<"download", 0>>)
    /\ UNCHANGED <<sem, now, source_health, seen, embeddings, healthObs, seenObs,
                   embedObs, runVars, scoreObs, writerVars, configVars>>

\* trafilatura.fetch_url and extract end: with usable text the task returns
\* it, else (nothing downloaded, short or unclean text, an exception) it goes
\* on to the fallback and calls polite_get_async
FDownloadDone(ok) ==
    /\ fetch[<<"download", 0>>] > 0
    /\ fetch' = Move(fetch, <<"download", 0>>,
                     IF ok THEN <<"text", 0>> ELSE <<"wait", 0>>)
    /\ UNCHANGED <<sem, now, source_health, seen, embeddings, healthObs, seenObs,
                   embedObs, runVars, scoreObs, writerVars, configVars>>

\* async with semaphore: a permit is taken, then asyncio.sleep(0.3)
FAcquire ==
    /\ fetch[<<"wait", 0>>] > 0
    /\ sem > 0
    /\ sem' = sem - 1
    /\ fetch' = Move(fetch, <<"wait", 0>>, <<"pause", 0>>)
    /\ UNCHANGED <<now, source_health, seen, embeddings, healthObs, seenObs,
                   embedObs, runVars, scoreObs, writerVars, configVars>>

\* the sleep ends and the next client.get is sent
FGetStart(attempt) ==
    /\ fetch[<<"pause", attempt>>] > 0
    /\ fetch' = Move(fetch, <<"pause", attempt>>, <<"get", attempt + 1>>)
    /\ UNCHANGED <<sem, now, source_health, seen, embeddings, healthObs, seenObs,
                   embedObs, runVars, scoreObs, writerVars, configVars>>

\* the GET ends; the permit is given back when polite_get_async returns or
\* raises, and kept while it sleeps before the next attempt
FGetDone(attempt, outcome) ==
    LET to == after_get(attempt, outcome) IN
    /\ fetch[<<"get", attempt>>] > 0
    /\ fetch' = Move(fetch, <<"get", attempt>>, to)
    /\ sem' = permits_after_get(sem, to)
    /\ UNCHANGED <<now, source_health, seen, embeddings, healthObs, seenObs,
                   embedObs, runVars, scoreObs, writerVars, configVars>>

NextFetch ==
    \/ FDownloadStart
    \/ \E ok \in BOOLEAN : FDownloadDone(ok)
    \/ FAcquire
    \/ \E attempt \in 0..Len(Delays) : FGetStart(attempt)
    \/ \E attempt \in 1..(Len(Delays) + 1), outcome \in GetOutcomes :
          FGetDone(attempt, outcome)

SpecFetch == InitFetch /\ [][NextFetch]_vars

\* ------------------------------------------------ the world of the pipeline
\* cfg["sources"], in order
SourceList == <<"s1", "s2">>
\* the position of a source in cfg["sources"]
SourceIndex(src) == CHOOSE i \in 1..Len(SourceList) : SourceList[i] = src
\* ranking.min_score (default 1), in hundredths
MIN_SCORE == 100
\* limits.per_run_max_articles
PER_RUN_MAX_ARTICLES == 3
\* limits.per_run_max_summary
PER_RUN_MAX_SUMMARY == 2
\* DEFAULT_MAX_AGE_HOURS = 48.0, in seconds
MAX_AGE_SECS == 48 * 3600
\* the time between two runs: a second, or exactly a cool-down
RunGaps == {1, COOLDOWN_SECS}

\* what the two feeds list: uA is listed by both, with two titles; uB is a
\* syndicated copy of uA (another url, the same body); tD matches no topic
EntryA == [url |-> "uA", title |-> "tA", description |-> "dA", published |-> 50,
           source_url |-> "s1"]
EntryD == [url |-> "uD", title |-> "tD", description |-> "dD", published |-> 60,
           source_url |-> "s1"]
EntryB == [url |-> "uB", title |-> "tB", description |-> "dB", published |-> 40,
           source_url |-> "s2"]
EntryA2 == [url |-> "uA", title |-> "tA2", description |-> "dA2", published |-> NULL,
            source_url |-> "s2"]
EntryC == [url |-> "uC", title |-> "tC", description |-> "dC", published |-> 30,
           source_url |-> "s2"]

\* d.entries of feedparser.parse(source_url), as ArticleMetadata
Feed(src) == IF src = "s1" THEN <<EntryA, EntryD>> ELSE <<EntryB, EntryA2, EntryC>>

\* the body text the extractor gets at a url
Body(url) == IF url \in {"uA", "uB"} THEN "x" ELSE "y"

\* hay_lower.count(t): occurrences of a topic in a string
Count(topic, str) ==
    CASE str \in {"tA", "dA", "dB", "dA2", "dC", "y"} -> 1
      [] str = "x" -> 2
      [] OTHER -> 0

\* fuzz.partial_ratio(t, title), 0..100
PartialRatio(topic, title) ==
    CASE title \in {"tA", "tB", "tA2"} -> 50
      [] title = "tC" -> 20
      [] OTHER -> 40

\* cosine_similarity(interest_profile, vector of the text), in thousandths
SemanticSim(text) == IF text = "x" THEN 300 ELSE 900

\* ------------------------------------------------------------- pure helpers
Max(a, b) == IF a >= b THEN a ELSE b
Min(a, b) == IF a <= b THEN a ELSE b

RECURSIVE SumOver(_, _)
SumOver(f, S) ==
    IF S = {} THEN 0
    ELSE LET x == CHOOSE x \in S : TRUE IN f[x] + SumOver(f, S \ {x})

\* the slice one entry too long
take_one_more(seq, n) == SubSeq(seq, 1, Min(n + 1, Len(seq)))

\* seq[:n]
Take(seq, n) == SubSeq(seq, 1, Min(n, Len(seq)))

\* the batches joined up to the first empty one
RECURSIVE concat_until_empty(_)
concat_until_empty(seqs) ==
    IF seqs = <<>> \/ Head(seqs) = <<>> THEN <<>>
    ELSE Head(seqs) \o concat_until_empty(Tail(seqs))

RECURSIVE Concat(_)
Concat(seqs) == IF seqs = <<>> THEN <<>> ELSE Head(seqs) \o Concat(Tail(seqs))

\* list.sort(key=..., reverse=True): descending by key, equal keys keep their
\* order; keys[i] is the key <<k1, k2>> of items[i], compared as tuples
KeyGreater(a, b) == a[1] > b[1] \/ (a[1] = b[1] /\ a[2] > b[2])

\* the sort without reverse=True: ascending by key
sort_ascending(items, keys) ==
    LET n == Len(items)
        rank(i) == 1 + Cardinality({j \in 1..n :
                        \/ KeyGreater(keys[i], keys[j])
                        \/ (keys[j] = keys[i] /\ j < i)})
    IN [r \in 1..n |-> items[CHOOSE i \in 1..n : rank(i) = r]]

SortDesc(items, keys) ==
    LET n == Len(items)
        rank(i) == 1 + Cardinality({j \in 1..n :
                        \/ KeyGreater(keys[j], keys[i])
                        \/ (keys[j] = keys[i] /\ j < i)})
    IN [r \in 1..n |-> items[CHOOSE i \in 1..n : rank(i) = r]]

\* --------------------------------------------------------------- scorer.py
\* the sum started at 1.0 in place of 0.0
keyword_score_from_one(text, title, topics) ==
    100 + SumOver([t \in topics |->
                     100 * (Count(t, title) + Count(t, text))
                     + (IF title # "" THEN PartialRatio(t, title) ELSE 0)],
                  topics)

\* keyword_score(text, title, topics), in hundredths: per topic the count in
\* title + "\n" + text, plus partial_ratio / 100 when there is a title
keyword_score(text, title, topics) ==
    SumOver([t \in topics |->
                100 * (Count(t, title) + Count(t, text))
                + (IF title # "" THEN PartialRatio(t, title) ELSE 0)],
            topics)

\* normalize_keyword_score(raw, max_observed), in thousandths
normalize_keyword_score(raw, max_observed) ==
    IF max_observed <= 0 THEN 0 ELSE Min((raw * 1000) \div max_observed, 1000)

\* the decay without its two clamps
recency_score_unclamped(published, now_dt, max_age) ==
    IF published = NULL THEN 500
    ELSE 1000 - ((now_dt - published) * 1000) \div max_age

\* recency_score(published_dt, now_dt, max_age_hours), in thousandths; the
\* times and max_age are in one unit, the quotient is rounded down
recency_score(published, now_dt, max_age) ==
    IF published = NULL THEN 500
    ELSE IF now_dt - published < 0 THEN 1000
    ELSE Max(0, 1000 - ((now_dt - published) * 1000) \div max_age)

\* combined_score with DEFAULT_WEIGHTS 0.4, 0.4, 0.2, in ten-thousandths
combined_score(semantic_sim, kw_normalized, recency) ==
    4 * semantic_sim + 4 * kw_normalized + 2 * recency

\* an undated entry sorts as the newest
published_or_max(published) == IF published = NULL THEN 2147483647 ELSE published

\* published or datetime.min: an undated entry sorts as the oldest (NULL is
\* below every timestamp)
PublishedKey(published) == IF published = NULL THEN NULL ELSE published

\* score_articles_batch: keyword score on the full text, the semantic
\* similarity, the recency, the weighted sum, then sort by score descending
score_articles_batch(articles, topics, now_dt) ==
    LET n == Len(articles)
        kw == [i \in 1..n |-> keyword_score(articles[i].text, articles[i].title, topics)]
        max_kw == CHOOSE m \in {kw[i] : i \in 1..n} : \A j \in 1..n : kw[j] <= m
        scored == [i \in 1..n |->
                     [articles[i] EXCEPT !.score =
                         combined_score(SemanticSim(articles[i].text),
                                        normalize_keyword_score(kw[i], max_kw),
                                        recency_score(articles[i].published, now_dt,
                                                      MAX_AGE_SECS))]]
    IN IF n = 0 THEN <<>>
       ELSE SortDesc(scored, [i \in 1..n |-> <<scored[i].score, 0>>])

\* sorted(hash_deduped, key=(kw_score, published or datetime.min), reverse=True)
keyword_only_sort(articles) ==
    SortDesc(articles, [i \in 1..Len(articles) |->
                <<articles[i].kw_score, PublishedKey(articles[i].published)>>])

\* -------------------------------------------------------------- fetcher.py
\* fetch_rss_async under each outcome of the feed: "ok"; "parse_fail", the
\* fetch or parse of feedparser.parse failing (caught, logged, [] returned);
\* "entry_error", an exception of the loop over d.entries, which is outside
\* the try (time.mktime on a date out of range) and leaves the function
FeedOutcomes == {"ok", "parse_fail", "entry_error"}
fetch_rss_async(src, outcome) ==
    CASE outcome = "ok" -> [raised |-> FALSE, articles |-> Feed(src)]
      [] outcome = "parse_fail" -> [raised |-> FALSE, articles |-> <<>>]
      [] OTHER -> [raised |-> TRUE, articles |-> <<>>]

\* _fetch_one of fetch_all_rss after the fetch: record_source_success when
\* fetch_rss_async returned, record_source_failure when it raised
fetch_one_record(h, src, raised, t) ==
    IF raised
    THEN record_source_failure(h, src, DISABLE_AFTER_N, t)
    ELSE record_source_success(h, src, t)

\* an entry of stage 2's unseen list, with the fields later stages add
Candidate(art) ==
    [url |-> art.url, title |-> art.title, description |-> art.description,
     published |-> art.published, source_url |-> art.source_url,
     kw_score |-> NULL, text |-> "", content_hash |-> <<>>, score |-> NULL,
     summary |-> ""]

\* the digest taken of the title in place of the text
with_text_hash_of_title(item, text) ==
    [item EXCEPT !.text = text, !.content_hash = Sha256(item.title)]

\* _fetch_one of fetch_full_content_batch: None without text, else the item
\* with its text and the digest of the text
with_text(item, text) ==
    [item EXCEPT !.text = text, !.content_hash = Sha256(text)]

\* ---------------------------------------------------------------- main.py
\* the source_health rows a database may hold when a behaviour starts: none,
\* or four failures in a row recorded at time 0
FailingRow ==
    [present |-> TRUE, consecutive_failures |-> DISABLE_AFTER_N - 1,
     last_failure_ts |-> 0, last_success_ts |-> NULL, disabled_until_ts |-> NULL]

InitRun ==
    /\ InitObs
    /\ InitNoFetch
    /\ InitNoWriters
    /\ now = 0
    /\ seen = {}
    /\ \E row \in {NoHealthRow, FailingRow} :
          source_health = [s \in Sources |-> IF s = "s1" THEN row ELSE NoHealthRow]
    /\ pc = "idle"
    /\ run = 0
    /\ has_key \in BOOLEAN
    /\ feeds = [s \in Sources |-> NoFeedTask]
    /\ funnel = EmptyFunnel
    /\ embeddings = {}
    /\ calls = <<>>
    /\ start = [seen |-> seen, source_health |-> source_health,
                embeddings |-> embeddings]
    /\ disk = [seen |-> seen, source_health |-> source_health,
               embeddings |-> embeddings]

\* the first run is about to start, with the topics of config.yaml
Init == InitRun /\ InitConfig

\* the new connection goes on with what the last one had written
open_db_keep_pending(on_disk, pending) == pending

\* get_db(db_path): aiosqlite.connect opens a new connection, which reads the
\* committed tables; what the last connection wrote and did not commit is
\* not in them
open_db(on_disk, pending) == on_disk

\* run() up to stage 1: get_db opens the database file, fetch_all_rss creates
\* one _fetch_one task per source
StartRun(gap) ==
    /\ pc \in {"idle", "aborted"}
    /\ run < MaxRuns
    /\ run' = run + 1
    /\ now' = now + gap
    /\ seen' = open_db(disk.seen, seen)
    /\ source_health' = open_db(disk.source_health, source_health)
    /\ embeddings' = open_db(disk.embeddings, embeddings)
    /\ start' = [seen |-> seen', source_health |-> source_health',
                 embeddings |-> embeddings']
    /\ feeds' = [s \in Sources |-> [NoFeedTask EXCEPT !.task = "pending"]]
    /\ funnel' = EmptyFunnel
    /\ pc' = "stage1"
    /\ UNCHANGED <<has_key, disk, healthObs, seenObs, calls, embedObs, fetchVars,
                   scoreObs, writerVars, configVars>>

\* _fetch_one(src), first part: a disabled source returns [] at once
FeedCheck(src) ==
    /\ pc = "stage1"
    /\ feeds[src].task = "pending"
    /\ feeds' = [feeds EXCEPT ![src].task =
                    IF is_source_disabled(source_health, src, now)
                    THEN "skipped" ELSE "fetching"]
    /\ funnel' = [funnel EXCEPT !.finished =
                    IF is_source_disabled(source_health, src, now)
                    THEN Append(@, SourceIndex(src)) ELSE @]
    /\ UNCHANGED <<now, source_health, seen, pc, run, has_key, start, disk,
                   healthObs, seenObs,
                   embeddings, calls, embedObs, fetchVars,
                   scoreObs, writerVars, configVars>>

\* _fetch_one(src), second part: the feed fetch ends and the health row is
\* written
FeedDone(src, outcome) ==
    LET got == fetch_rss_async(src, outcome) IN
    /\ pc = "stage1"
    /\ feeds[src].task = "fetching"
    /\ source_health' = fetch_one_record(source_health, src, got.raised, now)
    /\ feeds' = [feeds EXCEPT ![src] =
                    [task |-> "done", outcome |-> outcome, result |-> got.articles,
                     successes |-> IF got.raised THEN 0 ELSE 1,
                     failures |-> IF got.raised THEN 1 ELSE 0]]
    /\ funnel' = [funnel EXCEPT !.finished = Append(@, SourceIndex(src))]
    /\ UNCHANGED <<now, seen, pc, run, has_key, start, disk,
                   healthObs, seenObs,
                   embeddings, calls, embedObs, fetchVars,
                   scoreObs, writerVars, configVars>>

\* the states of a task that has returned
Finished == {"skipped", "done"}

\* the results in the order the tasks finished in, as asyncio.as_completed
\* would give them
gather_as_completed(results, finished) ==
    [k \in 1..Len(finished) |-> results[finished[k]]]

\* asyncio.gather(*tasks): the results in the order of the tasks, whatever
\* order they finished in (finished lists the tasks' positions in that order)
gather_results(results, finished) == results

\* the await returns as soon as one task has
gather_first(statuses) == statuses = {} \/ statuses \cap Finished # {}

\* await asyncio.gather(*tasks) returns once every task has returned
gather_done(statuses) == statuses \subseteq Finished

\* asyncio.gather returns once every _fetch_one has; the batches are joined
\* in the order of sources
Stage1Gather ==
    /\ pc = "stage1"
    /\ gather_done({feeds[s].task : s \in Sources})
    /\ funnel' = [funnel EXCEPT !.all_articles =
                    Concat(gather_results(
                        [i \in 1..Len(SourceList) |-> feeds[SourceList[i]].result],
                        funnel.finished))]
    /\ pc' = "stage2"
    /\ UNCHANGED <<now, source_health, seen, run, has_key, feeds, start, disk,
                   healthObs, seenObs,
                   embeddings, calls, embedObs, fetchVars,
                   scoreObs, writerVars, configVars>>

\* the filter left out: every entry goes on
url_dedup_none(articles, tbl) == articles

\* for article in all_articles: if not is_url_seen(db, article.url)
url_dedup(articles, tbl) ==
    SelectSeq(articles, LAMBDA a : ~is_url_seen(tbl, a.url))

\* stage 2: keep the entries whose url is not in seen
Stage2UrlDedup ==
    /\ pc = "stage2"
    /\ funnel' = [funnel EXCEPT !.unseen =
                    LET kept == url_dedup(funnel.all_articles, seen)
                    IN [i \in 1..Len(kept) |-> Candidate(kept[i])],
                                !.finished = <<>>]
    /\ pc' = "stage3"
    /\ UNCHANGED <<now, source_health, seen, run, has_key, feeds, start, disk,
                   healthObs, seenObs,
                   embeddings, calls, embedObs, fetchVars,
                   scoreObs, writerVars, configVars>>

\* stage 3: keyword score on title and description, the minimum, the sort and
\* the cut to per_run_max_articles; stage 4 then creates one task per candidate
keyword_filter(unseen) ==
    LET scored == [i \in 1..Len(unseen) |->
                     [unseen[i] EXCEPT !.kw_score =
                        keyword_score(unseen[i].description, unseen[i].title,
                                      TopicSet(cfg_topics))]]
        kw_scored == SelectSeq(scored, LAMBDA a : a.kw_score >= MIN_SCORE)
        sorted == SortDesc(kw_scored, [i \in 1..Len(kw_scored) |->
                     <<kw_scored[i].kw_score, PublishedKey(kw_scored[i].published)>>])
    IN Take(sorted, PER_RUN_MAX_ARTICLES)

Stage3KeywordFilter ==
    LET top == keyword_filter(funnel.unseen) IN
    /\ pc = "stage3"
    /\ funnel' = [funnel EXCEPT !.top_candidates = top,
                                !.content = [i \in 1..Len(top) |->
                                               [task |-> "pending", text |-> ""]]]
    /\ pc' = "stage4"
    /\ UNCHANGED <<now, source_health, seen, run, has_key, feeds, start, disk,
                   healthObs, seenObs,
                   embeddings, calls, embedObs, fetchVars,
                   scoreObs, writerVars, configVars>>

\* _fetch_one(item) of fetch_full_content_batch starts its fetch
ContentStart(i) ==
    /\ pc = "stage4"
    /\ i \in 1..Len(funnel.content)
    /\ funnel.content[i].task = "pending"
    /\ funnel' = [funnel EXCEPT !.content[i].task = "fetching"]
    /\ UNCHANGED <<now, source_health, seen, pc, run, has_key, feeds, start, disk,
                   healthObs, seenObs,
                   embeddings, calls, embedObs, fetchVars,
                   scoreObs, writerVars, configVars>>

\* how the extraction at a url can go: "text", the page's text is long and
\* clean; "short", it is clean and has no more than 40 words; "unclean", it
\* is long and not clean; "raised", the download and the GETs raised
ExtractOutcomes == {"text", "short", "unclean", "raised"}

\* len(text.split()) of the text extracted
WordCount(outcome) == IF outcome = "short" THEN 40 ELSE 41

\* text and len(text.split()) > 40 and is_clean_text(text)
usable_text(words, clean) == words > 40 /\ clean

\* extract_main_text_async(client, url, semaphore): the text where it is
\* usable, else None ("" stands for None; _fetch_one asks "if not text")
extract_main_text_async(url, outcome) ==
    IF outcome # "raised" /\ usable_text(WordCount(outcome), outcome # "unclean")
    THEN Body(url) ELSE ""

\* extract_main_text_async returns the body text, or None (no usable text)
ContentDone(i, outcome) ==
    /\ pc = "stage4"
    /\ i \in 1..Len(funnel.content)
    /\ funnel.content[i].task = "fetching"
    /\ funnel' = [funnel EXCEPT !.content[i] =
                    [task |-> "done",
                     text |-> extract_main_text_async(funnel.top_candidates[i].url,
                                                      outcome)],
                                !.finished = Append(@, i)]
    /\ UNCHANGED <<now, source_health, seen, pc, run, has_key, feeds, start, disk,
                   healthObs, seenObs,
                   embeddings, calls, embedObs, fetchVars,
                   scoreObs, writerVars, configVars>>

\* asyncio.gather returns; the candidates that got text are kept, in order
Stage4Gather ==
    LET n == Len(funnel.top_candidates)
        results == [i \in 1..n |->
                      with_text(funnel.top_candidates[i], funnel.content[i].text)]
    IN
    /\ pc = "stage4"
    /\ gather_done({funnel.content[i].task : i \in 1..n})
    /\ funnel' = [funnel EXCEPT !.with_content =
                    SelectSeq(gather_results(results, funnel.finished),
                              LAMBDA r : r.text # "")]
    /\ pc' = "stage5"
    /\ UNCHANGED <<now, source_health, seen, run, has_key, feeds, start, disk,
                   healthObs, seenObs,
                   embeddings, calls, embedObs, fetchVars,
                   scoreObs, writerVars, configVars>>

\* the filter asks is_url_seen in place of is_hash_seen
content_dedup_by_url(articles, tbl) ==
    SelectSeq(articles, LAMBDA a : ~is_url_seen(tbl, a.url))

\* stage 5, first half: drop the articles whose content hash is in seen
content_dedup(articles, tbl) ==
    SelectSeq(articles, LAMBDA a : ~is_hash_seen(tbl, a.content_hash))

Stage5HashDedup ==
    /\ pc = "stage5"
    /\ funnel' = [funnel EXCEPT !.hash_deduped = content_dedup(funnel.with_content, seen),
                                !.finished = <<>>]
    /\ pc' = "score"
    /\ UNCHANGED <<now, source_health, seen, run, has_key, feeds, start, disk,
                   healthObs, seenObs,
                   embeddings, calls, embedObs, fetchVars,
                   scoreObs, writerVars, configVars>>

\* (a.get("text") or a.get("description") or a.get("title") or "")[:2000]
embed_texts(articles) ==
    [i \in 1..Len(articles) |->
        Truncate(IF articles[i].text # "" THEN articles[i].text
                 ELSE IF articles[i].description # "" THEN articles[i].description
                 ELSE articles[i].title,
                 2000)]

\* the log entries of a call answered for each of these articles
CallsFor(kind, articles, n) ==
    [i \in 1..Len(articles) |->
        [run |-> n, kind |-> kind, url |-> articles[i].url,
         title |-> articles[i].title, content_hash |-> articles[i].content_hash]]

\* stage 5, second half: hybrid scoring with a client (the topics are
\* embedded for the interest profile, then the article texts), else the
\* keyword sort. Neither call of the scorer stands in a try block: where the
\* provider fails a request the exception leaves run(), the connection is
\* dropped without a commit and nothing after stage 5 happens
Stage5Score(profile_ok, batch_ok) ==
    LET hybrid == Len(funnel.hash_deduped) > 0 /\ has_key
        profile == get_embeddings_batch(embeddings, cfg_topics, EmbeddingModel,
                                        profile_ok, now)
        batch == get_embeddings_batch(profile.rows, embed_texts(funnel.hash_deduped),
                                      EmbeddingModel, batch_ok, now)
        sent == [j \in 1..Len(batch.misses) |-> funnel.hash_deduped[batch.misses[j]]]
    IN
    /\ pc = "score"
    /\ IF ~hybrid
       THEN /\ funnel' = [funnel EXCEPT !.scored_articles =
                            keyword_only_sort(funnel.hash_deduped)]
            /\ embeddings' = embeddings
            /\ calls' = calls
            /\ pc' = "stage6"
       ELSE IF profile.raised
       THEN /\ funnel' = [funnel EXCEPT !.raised = "embedding"]
            /\ embeddings' = embeddings
            /\ calls' = calls
            /\ pc' = "aborted"
       ELSE IF batch.raised
       THEN /\ funnel' = [funnel EXCEPT !.raised = "embedding"]
            /\ embeddings' = profile.rows
            /\ calls' = calls
            /\ pc' = "aborted"
       ELSE /\ funnel' = [funnel EXCEPT !.scored_articles =
                            score_articles_batch(funnel.hash_deduped, TopicSet(cfg_topics),
                                                 now)]
            /\ embeddings' = batch.rows
            /\ calls' = calls \o CallsFor("embed", sent, run)
            /\ pc' = "stage6"
    /\ UNCHANGED <<now, source_health, seen, run, has_key, feeds, start, disk,
                   healthObs, seenObs, embedObs, fetchVars,
                   scoreObs, writerVars, configVars>>

\* extractive_summarize(text): the local summary, bullets of the text's
\* highest scoring sentences
extractive_summarize(text) == "extractive"

\* what client.responses.create does with one prompt
LlmOutcomes == {"text", "empty", "error"}

\* openai_summarize: the stripped output text, or None when the call raised
\* (None and the empty string are both falsy: "" stands for either)
openai_summarize(outcome) == IF outcome = "text" THEN "llm" ELSE ""

\* summarize without the fallback
summarize_no_fallback(outcome, text) == openai_summarize(outcome)

\* summarize with summarization enabled and a key: the LLM's result where it
\* is truthy, else the extractive summary
summarize(outcome, text) ==
    IF openai_summarize(outcome) # "" THEN openai_summarize(outcome)
    ELSE extractive_summarize(text)

\* stage 6: the first per_run_max_summary articles are to be summarized.
\* With a client summarize_batch creates one _one task per article and each
\* makes its LLM call (summarization is enabled with provider "openai");
\* without one the extractive summaries are made in a loop on the spot
Stage6Summarize ==
    LET to_summarize == Take(funnel.scored_articles, PER_RUN_MAX_SUMMARY) IN
    /\ pc = "stage6"
    /\ IF has_key
       THEN /\ funnel' = [funnel EXCEPT
                            !.to_summarize = to_summarize,
                            !.summaries = [i \in 1..Len(to_summarize) |->
                                             [task |-> "calling", summary |-> ""]]]
            /\ calls' = calls \o CallsFor("summarize", to_summarize, run)
            /\ pc' = "summarize"
       ELSE /\ funnel' = [funnel EXCEPT
                            !.to_summarize = to_summarize,
                            !.summarized = [i \in 1..Len(to_summarize) |->
                                [to_summarize[i] EXCEPT !.summary =
                                    extractive_summarize(to_summarize[i].text)]]]
            /\ calls' = calls
            /\ pc' = "stage7"
    /\ UNCHANGED <<now, source_health, seen, run, has_key, feeds, start, disk,
                   healthObs, seenObs, embeddings, embedObs, fetchVars,
                   scoreObs, writerVars, configVars>>

\* _one(article) returns: the LLM's text where the call succeeded and returned
\* text, else the extractive summary
SummarizeDone(i, outcome) ==
    /\ pc = "summarize"
    /\ i \in 1..Len(funnel.summaries)
    /\ funnel.summaries[i].task = "calling"
    /\ funnel' = [funnel EXCEPT !.summaries[i] =
                    [task |-> "done",
                     summary |-> summarize(outcome, funnel.to_summarize[i].text)],
                                !.finished = Append(@, i)]
    /\ UNCHANGED <<now, source_health, seen, pc, run, has_key, feeds, start, disk,
                   healthObs, seenObs,
                   embeddings, calls, embedObs, fetchVars,
                   scoreObs, writerVars, configVars>>

\* asyncio.gather of summarize_batch returns the articles with their
\* summaries, in the order of to_summarize
Stage6Gather ==
    LET n == Len(funnel.to_summarize) IN
    /\ pc = "summarize"
    /\ gather_done({funnel.summaries[i].task : i \in 1..n})
    /\ funnel' = [funnel EXCEPT !.summarized =
                    gather_results(
                        [i \in 1..n |->
                           [funnel.to_summarize[i] EXCEPT
                               !.summary = funnel.summaries[i].summary]],
                        funnel.finished)]
    /\ pc' = "stage7"
    /\ UNCHANGED <<now, source_health, seen, run, has_key, feeds, start, disk,
                   healthObs, seenObs,
                   embeddings, calls, embedObs, fetchVars,
                   scoreObs, writerVars, configVars>>

\* stage 7: build_report lists the summarized articles in order and
\* save_report writes the file, with no article too
build_report(items) ==
    [i \in 1..Len(items) |->
        [n |-> i, title |-> items[i].title, published |-> items[i].published,
         url |-> items[i].url, summary |-> items[i].summary]]

Stage7Report ==
    /\ pc = "stage7"
    /\ funnel' = [funnel EXCEPT !.report = build_report(funnel.summarized),
                                !.saved = TRUE]
    /\ pc' = "stage8"
    /\ UNCHANGED <<now, source_health, seen, run, has_key, feeds, start, disk,
                   healthObs, seenObs,
                   embeddings, calls, embedObs, fetchVars,
                   scoreObs, writerVars, configVars>>

\* stage 8: deliver hands the report to send_email and send_slack, two
\* concurrent tasks
Channels == {"email", "slack"}

Stage8Deliver ==
    /\ pc = "stage8"
    /\ funnel' = [funnel EXCEPT !.delivery =
                    [ch \in Channels |->
                        [task |-> "sending", result |-> FALSE, attempts |-> 0]],
                                !.finished = <<>>]
    /\ calls' = calls \o CallsFor("deliver", funnel.summarized, run)
    /\ pc' = "deliver"
    /\ UNCHANGED <<now, source_health, seen, run, has_key, feeds, start, disk,
                   healthObs, seenObs, embeddings, embedObs, fetchVars,
                   scoreObs, writerVars, configVars>>

\* how a channel's send can go: the channel is not enabled; a needed
\* environment variable or address is missing; the transport raises (SMTP
\* or HTTP); the webhook answers with a status outside 2xx; the message is
\* accepted. SMTP has no status answer: a refusal is an exception
ChannelOutcomes(ch) ==
    IF ch = "email" THEN {"disabled", "missing", "error", "sent"}
    ELSE {"disabled", "missing", "error", "non_2xx", "sent"}

\* the boolean send_email / send_slack returns
send_result(outcome) == outcome = "sent"

\* a failed send is tried once more
transport_attempts_retry(outcome) ==
    IF outcome \in {"disabled", "missing"} THEN 0
    ELSE IF outcome = "sent" THEN 1 ELSE 2

\* the connections a send opens: none when it returns before the transport,
\* else one (_send in the executor, client.post)
transport_attempts(outcome) == IF outcome \in {"disabled", "missing"} THEN 0 ELSE 1

\* send_email / send_slack returns True or False; each catches the
\* exceptions of its transport
DeliveryDone(ch, outcome) ==
    /\ pc = "deliver"
    /\ funnel.delivery[ch].task = "sending"
    /\ outcome \in ChannelOutcomes(ch)
    /\ funnel' = [funnel EXCEPT !.delivery[ch] =
                    [task |-> "done", result |-> send_result(outcome),
                     attempts |-> funnel.delivery[ch].attempts
                                    + transport_attempts(outcome)]]
    /\ UNCHANGED <<now, source_health, seen, pc, run, has_key, feeds, start, disk,
                   healthObs, seenObs,
                   embeddings, calls, embedObs, fetchVars,
                   scoreObs, writerVars, configVars>>

\* asyncio.gather of deliver returns one boolean per channel
Stage8Gather ==
    /\ pc = "deliver"
    /\ gather_done({funnel.delivery[ch].task : ch \in Channels})
    /\ funnel' = [funnel EXCEPT !.delivery_results =
                    [ch \in Channels |-> funnel.delivery[ch].result]]
    /\ pc' = "stage9"
    /\ UNCHANGED <<now, source_health, seen, run, has_key, feeds, start, disk,
                   healthObs, seenObs,
                   embeddings, calls, embedObs, fetchVars,
                   scoreObs, writerVars, configVars>>

\* only the first article is marked
mark_first(tbl, arts, ts) ==
    IF arts = <<>> THEN tbl
    ELSE mark_seen(tbl, Head(arts).url, Head(arts).title,
                   Head(arts).content_hash, ts).rows

\* every article is marked, without its content hash
RECURSIVE mark_all_unhashed(_, _, _)
mark_all_unhashed(tbl, arts, ts) ==
    IF arts = <<>> THEN tbl
    ELSE mark_all_unhashed(mark_seen(tbl, Head(arts).url, Head(arts).title,
                                     <<>>, ts).rows,
                           Tail(arts), ts)

\* for art in summarized: mark_seen(db, url, title, content_hash, now_ts)
RECURSIVE mark_all(_, _, _)
mark_all(tbl, arts, ts) ==
    IF arts = <<>> THEN tbl
    ELSE mark_all(mark_seen(tbl, Head(arts).url, Head(arts).title,
                            Head(arts).content_hash, ts).rows,
                  Tail(arts), ts)

\* the commit left out: the file keeps what it held
commit_missing(tables, on_disk) == on_disk

\* db.commit(): what the connection wrote becomes what the file holds
commit(tables, on_disk) == tables

\* stage 9: mark the summarized articles seen, commit, close
Stage9Persist ==
    /\ pc = "stage9"
    /\ seen' = mark_all(seen, funnel.summarized, now)
    /\ disk' = commit([seen |-> seen', source_health |-> source_health,
                        embeddings |-> embeddings], disk)
    /\ pc' = "idle"
    /\ UNCHANGED <<now, source_health, run, has_key, feeds, funnel, start,
                   healthObs, seenObs,
                   embeddings, calls, embedObs, fetchVars,
                   scoreObs, writerVars, configVars>>

Next ==
    \/ \E gap \in RunGaps : StartRun(gap)
    \/ \E src \in Sources : FeedCheck(src)
    \/ \E src \in Sources, outcome \in FeedOutcomes : FeedDone(src, outcome)
    \/ Stage1Gather
    \/ Stage2UrlDedup
    \/ Stage3KeywordFilter
    \/ \E i \in 1..PER_RUN_MAX_ARTICLES : ContentStart(i)
    \/ \E i \in 1..PER_RUN_MAX_ARTICLES, outcome \in ExtractOutcomes :
          ContentDone(i, outcome)
    \/ Stage4Gather
    \/ Stage5HashDedup
    \/ \E profile_ok \in BOOLEAN, batch_ok \in BOOLEAN :
          Stage5Score(profile_ok, batch_ok)
    \/ Stage6Summarize
    \/ \E i \in 1..PER_RUN_MAX_SUMMARY : SummarizeDone(i, "text")
    \/ Stage6Gather
    \/ Stage7Report
    \/ Stage8Deliver
    \/ \E ch \in Channels : DeliveryDone(ch, "sent")
    \/ Stage8Gather
    \/ Stage9Persist

Spec == Init /\ [][Next]_vars

\* -------------------------------------------------------------- SpecWriters
\* tasks of one run that write to the stores at the same time. A task is in
\* one storage call; the event loop switches tasks at each awaited statement,
\* so record_source_failure is three steps (upsert, SELECT, UPDATE) and
\* record_source_success and mark_seen are one each. The clock stands still
WriterCalls ==
    {[op |-> "failure", url |-> "s1", title |-> "", content_hash |-> <<>>],
     [op |-> "failure", url |-> "s2", title |-> "", content_hash |-> <<>>],
     [op |-> "success", url |-> "s1", title |-> "", content_hash |-> <<>>],
     [op |-> "mark", url |-> "uA", title |-> "tA", content_hash |-> Sha256("x")],
     [op |-> "mark", url |-> "uA", title |-> "tA2", content_hash |-> Sha256("y")]}

InitWriters ==
    /\ InitObs /\ InitNoFetch /\ InitConfig
    /\ now = 0
    /\ seen = {}
    /\ embeddings = {}
    /\ \E row \in {NoHealthRow, FailingRow} :
          source_health = [s \in Sources |-> IF s = "s1" THEN row ELSE NoHealthRow]
    /\ pc = "idle"
    /\ run = 0
    /\ has_key = FALSE
    /\ feeds = [s \in Sources |-> NoFeedTask]
    /\ funnel = EmptyFunnel
    /\ calls = <<>>
    /\ start = [seen |-> seen, source_health |-> source_health,
                embeddings |-> embeddings]
    /\ disk = start
    /\ \E ws \in [1..MaxWriters -> WriterCalls] :
          writers = [i \in 1..MaxWriters |->
                       [call |-> ws[i], at |-> "start", count |-> NULL]]

\* record_source_failure, first statement: the upsert that counts the failure
WUpsert(i) ==
    /\ writers[i].call.op = "failure"
    /\ writers[i].at = "start"
    /\ source_health' = upsert_failure(source_health, writers[i].call.url, now)
    /\ writers' = [writers EXCEPT ![i].at = "upserted"]
    /\ UNCHANGED <<now, seen, embeddings, healthObs, seenObs, embedObs,
                   fetchVars, runVars, scoreObs, configVars>>

\* second statement: SELECT consecutive_failures of the row
WSelect(i) ==
    /\ writers[i].at = "upserted"
    /\ writers' = [writers EXCEPT
                     ![i].at = "selected",
                     ![i].count =
                        source_health[writers[i].call.url].consecutive_failures]
    /\ UNCHANGED <<now, source_health, seen, embeddings, healthObs, seenObs,
                   embedObs, fetchVars, runVars, scoreObs, configVars>>

\* third statement, where the count read reached the threshold
WUpdate(i) ==
    /\ writers[i].at = "selected"
    /\ source_health' =
          IF should_disable(writers[i].count, DISABLE_AFTER_N)
          THEN set_disabled_until(source_health, writers[i].call.url, now)
          ELSE source_health
    /\ writers' = [writers EXCEPT ![i].at = "done"]
    /\ UNCHANGED <<now, seen, embeddings, healthObs, seenObs, embedObs,
                   fetchVars, runVars, scoreObs, configVars>>

\* record_source_success: one upsert
WSuccess(i) ==
    /\ writers[i].call.op = "success"
    /\ writers[i].at = "start"
    /\ source_health' = record_source_success(source_health, writers[i].call.url, now)
    /\ writers' = [writers EXCEPT ![i].at = "done"]
    /\ UNCHANGED <<now, seen, embeddings, healthObs, seenObs, embedObs,
                   fetchVars, runVars, scoreObs, configVars>>

\* mark_seen: one INSERT OR IGNORE
WMark(i) ==
    /\ writers[i].call.op = "mark"
    /\ writers[i].at = "start"
    /\ seen' = mark_seen(seen, writers[i].call.url, writers[i].call.title,
                         writers[i].call.content_hash, now).rows
    /\ writers' = [writers EXCEPT ![i].at = "done"]
    /\ UNCHANGED <<now, source_health, embeddings, healthObs, seenObs, embedObs,
                   fetchVars, runVars, scoreObs, configVars>>

NextWriters ==
    \E i \in 1..MaxWriters :
        \/ WUpsert(i)
        \/ WSelect(i)
        \/ WUpdate(i)
        \/ WSuccess(i)
        \/ WMark(i)

SpecWriters == InitWriters /\ [][NextWriters]_vars

\* ---------------------------------------------------------------- SpecScore
\* recency_score on every publish time (or none), present and maximum age of
\* a small clock
ScoreTimes == 0..MaxClock
ScoreMaxAges == {4, 10}

InitScore == InitStores /\ InitObs /\ InitNoFetch /\ InitNoRun /\ InitNoWriters
             /\ InitConfig

RRecency(published, now_dt, max_age) ==
    /\ score_call' = [n |-> 1, published |-> published, now_dt |-> now_dt,
                      max_age |-> max_age,
                      result |-> recency_score(published, now_dt, max_age)]
    /\ UNCHANGED <<now, source_health, seen, embeddings, healthObs, seenObs,
                   embedObs, fetchVars, runVars, writerVars, configVars>>

NextScore ==
    \E published \in ScoreTimes \cup {NULL}, now_dt \in ScoreTimes,
       max_age \in ScoreMaxAges : RRecency(published, now_dt, max_age)

SpecScore == InitScore /\ [][NextScore]_vars

\* -------------------------------------------------------------- SpecDeliver
\* the runs in which every feed, body fetch and embedding request succeeds,
\* with every way an LLM call and a channel's send can go
NextDeliver ==
    \/ StartRun(1)
    \/ \E src \in Sources : FeedCheck(src)
    \/ \E src \in Sources : FeedDone(src, "ok")
    \/ Stage1Gather
    \/ Stage2UrlDedup
    \/ Stage3KeywordFilter
    \/ \E i \in 1..PER_RUN_MAX_ARTICLES : ContentStart(i)
    \/ \E i \in 1..PER_RUN_MAX_ARTICLES : ContentDone(i, "text")
    \/ Stage4Gather
    \/ Stage5HashDedup
    \/ Stage5Score(TRUE, TRUE)
    \/ Stage6Summarize
    \/ \E i \in 1..PER_RUN_MAX_SUMMARY, outcome \in LlmOutcomes :
          SummarizeDone(i, outcome)
    \/ Stage6Gather
    \/ Stage7Report
    \/ Stage8Deliver
    \/ \E ch \in Channels : \E outcome \in ChannelOutcomes(ch) :
          DeliveryDone(ch, outcome)
    \/ Stage8Gather
    \/ Stage9Persist

SpecDeliver == Init /\ [][NextDeliver]_vars

\* --------------------------------------------------------------- SpecFunnel
\* the runs, a second apart, under a configuration with the one topic or
\* with none, with every outcome of the feeds and of the body fetches; the
\* embedding requests, the LLM calls and the sends succeed
InitFunnel == InitRun /\ cfg_topics \in {<<>>, TopicList}

NextFunnel ==
    \/ StartRun(1)
    \/ \E src \in Sources : FeedCheck(src)
    \/ \E src \in Sources, outcome \in FeedOutcomes : FeedDone(src, outcome)
    \/ Stage1Gather
    \/ Stage2UrlDedup
    \/ Stage3KeywordFilter
    \/ \E i \in 1..PER_RUN_MAX_ARTICLES : ContentStart(i)
    \/ \E i \in 1..PER_RUN_MAX_ARTICLES, outcome \in ExtractOutcomes :
          ContentDone(i, outcome)
    \/ Stage4Gather
    \/ Stage5HashDedup
    \/ Stage5Score(TRUE, TRUE)
    \/ Stage6Summarize
    \/ \E i \in 1..PER_RUN_MAX_SUMMARY : SummarizeDone(i, "text")
    \/ Stage6Gather
    \/ Stage7Report
    \/ Stage8Deliver
    \/ \E ch \in Channels : DeliveryDone(ch, "sent")
    \/ Stage8Gather
    \/ Stage9Persist

SpecFunnel == InitFunnel /\ [][NextFunnel]_vars

\* ------------------------------------------------- claims on source_health
\* C1: after DISABLE_AFTER_N or more consecutive record_source_failure calls
\* with no record_source_success between them the row holds a deadline 24h
\* after the last of these calls and is_source_disabled is true exactly while
\* the clock is before that deadline; with fewer consecutive failures since
\* the last success (or since the row was created) is_source_disabled is false.
C1_CircuitBreakerActivation ==
    \A s \in Sources :
        /\ hist[s].streak >= DISABLE_AFTER_N =>
              /\ source_health[s].present
              /\ source_health[s].disabled_until_ts = hist[s].at + COOLDOWN_SECS
              /\ is_source_disabled(source_health, s, now)
                    <=> (now < source_health[s].disabled_until_ts)
        /\ hist[s].streak < DISABLE_AFTER_N =>
              ~is_source_disabled(source_health, s, now)

\* exactly DISABLE_AFTER_N failures in a row, and the source is disabled
C1_Witness ==
    \E s \in Sources :
        /\ hist[s].streak = DISABLE_AFTER_N
        /\ hist[s].last = "failure"
        /\ is_source_disabled(source_health, s, now)

\* C2: right after record_source_success, whatever the row was before (absent,
\* failing, disabled), the row has consecutive_failures = 0 and no deadline,
\* is_source_disabled is false, and the source is disabled again only after
\* DISABLE_AFTER_N fresh consecutive failures.
C2_SuccessResets ==
    \A s \in Sources :
        /\ hist[s].last = "success" =>
              /\ source_health[s].present
              /\ source_health[s].consecutive_failures = 0
              /\ source_health[s].disabled_until_ts = NULL
              /\ source_health[s].last_success_ts = hist[s].at
              /\ ~is_source_disabled(source_health, s, now)
        /\ is_source_disabled(source_health, s, now) =>
              hist[s].streak >= DISABLE_AFTER_N

\* record_source_success was called on a source that was disabled
C2_Witness ==
    \E s \in Sources :
        /\ hist[s].last = "success"
        /\ hist[s].was_disabled
        /\ source_health[s].last_failure_ts # NULL

\* C3: a row with a deadline has a counter at or above the threshold.
C3_DeadlineOnlyAtThreshold ==
    \A s \in Sources :
        source_health[s].disabled_until_ts # NULL =>
            /\ source_health[s].present
            /\ source_health[s].consecutive_failures >= DISABLE_AFTER_N

\* a deadline is stored, and one more failure has moved the counter past 5
C3_Witness ==
    \E s \in Sources :
        /\ source_health[s].disabled_until_ts # NULL
        /\ source_health[s].consecutive_failures > DISABLE_AFTER_N

\* the value an is_source_disabled call returned agrees with the row it read
ProbeAgrees ==
    probe.url # "none" =>
        (probe.result <=>
            /\ probe.row.present
            /\ probe.row.disabled_until_ts # NULL
            /\ probe.at < probe.row.disabled_until_ts)

\* C4: is_source_disabled returns true iff the source has a row with a
\* deadline that is still in the future, and the call writes nothing: a
\* source whose deadline has passed reads as enabled without any write.
C4_DisabledIffFutureDeadline ==
    /\ []ProbeAgrees
    /\ [][probe'.url # "none" => source_health' = source_health]_vars

\* a call made at the very second of the deadline returned false, the row
\* still holding that deadline
C4_Witness ==
    /\ probe.url # "none"
    /\ ~probe.result
    /\ probe.row.disabled_until_ts # NULL
    /\ probe.at = probe.row.disabled_until_ts
    /\ source_health[probe.url] = probe.row

\* ---------------------------------------------------------- claims on seen
\* no url has two rows
OneRowPerUrl ==
    \A r1 \in seen, r2 \in seen : r1.url = r2.url => r1 = r2

\* C7: mark_seen on a url that already has a row raises nothing and changes
\* nothing, whatever title, hash and timestamp it is given; the table never
\* holds two rows of one url.
C7_MarkSeenIdempotent ==
    /\ [](OneRowPerUrl /\ ~seen_call.raised)
    /\ [][(seen_call'.n # seen_call.n /\ seen_call'.dup) => seen' = seen]_vars

\* a second mark_seen of a url with another title, hash and timestamp has
\* been made and the row of the first is the one kept
C7_Witness ==
    /\ seen_call.dup
    /\ \E r \in seen :
          /\ r.url = seen_call.url
          /\ r.title # seen_call.title
          /\ r.content_hash # seen_call.content_hash
          /\ r.first_seen_ts # seen_call.ts

\* ------------------------------------------------------ claims on the runs
\* the row the run found for the source holds a deadline still ahead
DisabledAtStart(s) ==
    /\ start.source_health[s].present
    /\ start.source_health[s].disabled_until_ts # NULL
    /\ now < start.source_health[s].disabled_until_ts

\* C5: a source that is disabled when stage 1 checks it is skipped: its task
\* never fetches, it adds no entry to all_articles, neither
\* record_source_success nor record_source_failure is applied, and its row is
\* the one the run found, also in what the run commits.
C5_DisabledSourceSkipped ==
    \A s \in Sources :
        (run > 0 /\ DisabledAtStart(s) /\ feeds[s].task # "pending") =>
            /\ feeds[s].task = "skipped"
            /\ feeds[s].outcome = "none"
            /\ feeds[s].result = <<>>
            /\ feeds[s].successes = 0 /\ feeds[s].failures = 0
            /\ \A i \in 1..Len(funnel.all_articles) :
                  funnel.all_articles[i].source_url # s
            /\ source_health[s] = start.source_health[s]
            /\ pc = "idle" => disk.source_health[s] = start.source_health[s]

\* a run has ended in which one source was skipped as disabled while the
\* other source's entries went through
C5_Witness ==
    /\ pc = "idle"
    /\ \E s \in Sources :
          /\ DisabledAtStart(s)
          /\ feeds[s].task = "skipped"
          /\ Len(funnel.all_articles) > 0
          /\ Len(funnel.summarized) > 0

\* C6 (as claimed): a feed whose fetch or parse failed yields no entries, gets
\* record_source_failure exactly once and no record_source_success, and its
\* counter is one above what the run found.
C6_FailedFeedCountsAsFailure ==
    \A s \in Sources :
        (feeds[s].task = "done" /\ feeds[s].outcome \in {"parse_fail", "entry_error"}) =>
            /\ feeds[s].result = <<>>
            /\ feeds[s].failures = 1
            /\ feeds[s].successes = 0
            /\ source_health[s].consecutive_failures =
                  start.source_health[s].consecutive_failures + 1

\* C8: a seen row is never removed or changed: the table the connection reads
\* and the committed table only grow, so is_url_seen and is_hash_seen never
\* turn from true to false.
C8_SeenOnlyGrows ==
    [][/\ seen \subseteq seen'
       /\ disk.seen \subseteq disk'.seen
       /\ \A r \in seen : is_url_seen(seen', r.url) /\ is_hash_seen(seen', r.content_hash)
      ]_vars

\* a second run has ended that added a row beside the row an earlier run
\* wrote for uA, which is still there with its first title
C8_Witness ==
    /\ pc = "idle"
    /\ run >= 2
    /\ \E r1 \in seen, r2 \in seen :
          /\ r1.first_seen_ts < r2.first_seen_ts
          /\ r2.first_seen_ts = now
          /\ r1.url = "uA" /\ r1.title = "tA"
    /\ disk.seen = seen

\* the content hash is in a row an earlier run committed
MarkedEarlier(content_hash) ==
    \E r \in start.seen : r.content_hash = content_hash

\* C9: an article whose content hash was marked seen by an earlier run is in
\* no list after content dedup: not scored, not summarized, not reported,
\* whether or not its url is in seen.
C9_ContentDedupAcrossRuns ==
    /\ \A i \in 1..Len(funnel.hash_deduped) :
          ~MarkedEarlier(funnel.hash_deduped[i].content_hash)
    /\ \A i \in 1..Len(funnel.scored_articles) :
          ~MarkedEarlier(funnel.scored_articles[i].content_hash)
    /\ \A i \in 1..Len(funnel.summarized) :
          ~MarkedEarlier(funnel.summarized[i].content_hash)
    /\ \A i \in 1..Len(funnel.report) :
          ~MarkedEarlier(Sha256(Body(funnel.report[i].url)))

\* a later run fetched uB, whose url is not in seen, found the hash of its
\* body marked by an earlier run under uA, and went on without it
C9_Witness ==
    /\ pc = "stage8"
    /\ \E i \in 1..Len(funnel.with_content) :
          /\ funnel.with_content[i].url = "uB"
          /\ \A r \in start.seen : r.url # "uB"
          /\ \E r \in start.seen :
                r.url = "uA" /\ r.content_hash = funnel.with_content[i].content_hash
    /\ Len(funnel.report) > 0
    /\ \A i \in 1..Len(funnel.report) : funnel.report[i].url # "uB"

\* C10 (as claimed): of articles of one run that have distinct urls and the
\* same content hash only one is summarized and reported.
C10_OneInstancePerContent ==
    \A i \in 1..Len(funnel.summarized), j \in 1..Len(funnel.summarized) :
        (i # j /\ funnel.summarized[i].url # funnel.summarized[j].url) =>
            funnel.summarized[i].content_hash # funnel.summarized[j].content_hash

\* ------------------------------------------------ claims on embeddings
\* the positions of texts whose cache key has no row in tbl
MissedPositions(tbl, texts) ==
    {i \in 1..Len(texts) :
        ~\E r \in tbl : r.cache_key = _cache_key(EmbeddingModel, texts[i])}

\* the texts at these positions, in the order of texts
TextsAt(texts, positions) ==
    LET idx == SelectSeq([i \in 1..Len(texts) |-> i], LAMBDA i : i \in positions)
    IN [j \in 1..Len(idx) |-> texts[idx[j]]]

\* C18: get_embeddings_batch makes exactly one provider request when at least
\* one text misses the cache, with exactly the missed texts in their order,
\* and none when every text hits; when it returns, it has made one
\* set_cached_embedding call per vector the provider gave, and each missed key
\* has a row, holding the vector written last under that key.
C18_OneRequestForMisses ==
    embed_call.op = "batch" =>
        LET b == embed_call.batch
            M == MissedPositions(embed_call.before, embed_call.texts)
            missed == TextsAt(embed_call.texts, M)
        IN /\ M # {} => (Len(b.requests) = 1 /\ b.requests[1] = missed)
           /\ M = {} => b.requests = <<>>
           /\ ~b.raised =>
                /\ Len(b.writes) = Len(missed)
                /\ \A j \in 1..Len(missed) :
                      /\ b.writes[j].cache_key = _cache_key(EmbeddingModel, missed[j])
                      /\ b.writes[j].vector = ProviderVector(missed[j])
                      /\ LET last == CHOOSE k \in j..Len(missed) :
                                        /\ b.writes[k].cache_key = b.writes[j].cache_key
                                        /\ \A m \in (k + 1)..Len(missed) :
                                              b.writes[m].cache_key # b.writes[j].cache_key
                         IN \E r \in embeddings :
                               /\ r.cache_key = b.writes[j].cache_key
                               /\ r.vector = json_dumps(b.writes[last].vector)

\* a batch of two texts, one cached and one not, has returned
C18_Witness ==
    /\ embed_call.op = "batch"
    /\ ~embed_call.batch.raised
    /\ Len(embed_call.texts) = 2
    /\ Cardinality(MissedPositions(embed_call.before, embed_call.texts)) = 1
    /\ Len(embed_call.batch.requests) = 1

\* C19: whatever the texts and whatever is cached, the list get_embeddings_batch
\* returns is as long as texts and its element i is the vector for texts[i]:
\* the one cached under its key if there is one, else the provider's vector
\* for that text.
C19_ResultsAlignWithTexts ==
    (embed_call.op = "batch" /\ ~embed_call.batch.raised) =>
        /\ Len(embed_call.batch.results) = Len(embed_call.texts)
        /\ \A i \in 1..Len(embed_call.texts) :
              LET key == _cache_key(EmbeddingModel, embed_call.texts[i]) IN
              embed_call.batch.results[i] =
                  IF \E r \in embed_call.before : r.cache_key = key
                  THEN json_loads((CHOOSE r \in embed_call.before : r.cache_key = key).vector)
                  ELSE ProviderVector(embed_call.texts[i])

\* a batch whose first text was cached, with a vector other than the
\* provider's, and whose second text was not
C19_Witness ==
    /\ embed_call.op = "batch"
    /\ ~embed_call.batch.raised
    /\ Len(embed_call.texts) = 2
    /\ MissedPositions(embed_call.before, embed_call.texts) = {2}
    /\ embed_call.batch.results[1] # ProviderVector(embed_call.texts[1])
    /\ embed_call.batch.results[2] = ProviderVector(embed_call.texts[2])

\* C20: right after set_cached_embedding(key, model, v) get_cached_embedding(key)
\* returns v; the set leaves one row for the key, the new one, and the rows of
\* other keys as they were; a get_embeddings_batch whose texts all have their
\* key cached makes no provider request.
C20_CacheRoundTrip ==
    /\ \A k \in EmbedKeys : Cardinality({r \in embeddings : r.cache_key = k}) <= 1
    /\ embed_call.op = "set" =>
          /\ get_cached_embedding(embeddings, embed_call.cache_key)
                = [found |-> TRUE, vector |-> embed_call.vector]
          /\ {r \in embeddings : r.cache_key # embed_call.cache_key}
                = {r \in embed_call.before : r.cache_key # embed_call.cache_key}
    /\ (embed_call.op = "batch"
            /\ MissedPositions(embed_call.before, embed_call.texts) = {}) =>
          /\ embed_call.batch.requests = <<>>
          /\ embeddings = embed_call.before

\* a second set on a key has just replaced another vector
C20_Witness ==
    /\ embed_call.op = "set"
    /\ \E r \in embed_call.before :
          /\ r.cache_key = embed_call.cache_key
          /\ r.vector # json_dumps(embed_call.vector)
    /\ Cardinality(embeddings) = Cardinality(embed_call.before)

\* ------------------------------------------------ claims on the funnel
\* the positions in the log of the calls of this kind made for this hash
CallsOf(kind, content_hash) ==
    {k \in 1..Len(calls) :
        calls[k].kind = kind /\ calls[k].content_hash = content_hash}

\* the content hashes the log holds
LoggedHashes == {calls[k].content_hash : k \in 1..Len(calls)}

\* C11 (as claimed): over any sequence of runs at most one summarization call
\* is made and at most one embedding input is sent for articles of one content
\* hash, whether its copies come in one run or in several.
C11_NoSecondPaidCall ==
    \A h \in LoggedHashes :
        /\ Cardinality(CallsOf("summarize", h)) <= 1
        /\ Cardinality(CallsOf("embed", h)) <= 1

C13_FunnelShrinks ==
    /\ Len(funnel.unseen) <= Len(funnel.all_articles)
    /\ Len(funnel.top_candidates) <= PER_RUN_MAX_ARTICLES
    /\ Len(funnel.top_candidates) <= Len(funnel.unseen)
    /\ Len(funnel.with_content) <= Len(funnel.top_candidates)
    /\ Len(funnel.hash_deduped) <= Len(funnel.with_content)
    /\ pc \notin {"score", "aborted"} =>
          Len(funnel.scored_articles) = Len(funnel.hash_deduped)
    /\ Len(funnel.to_summarize) <= PER_RUN_MAX_SUMMARY
    /\ Len(funnel.to_summarize) <= Len(funnel.scored_articles)
    /\ Len(funnel.summarized) <= PER_RUN_MAX_SUMMARY
    /\ Len(funnel.summarized) <= Len(funnel.scored_articles)
    /\ Len(funnel.report) <= Len(funnel.summarized)

\* a run in which both limits cut: more unseen entries than
\* per_run_max_articles, all fetched ones scored with the hybrid score, more
\* scored than per_run_max_summary
C13_Witness ==
    /\ pc = "stage8"
    /\ has_key
    /\ Len(funnel.unseen) > PER_RUN_MAX_ARTICLES
    /\ Len(funnel.top_candidates) = PER_RUN_MAX_ARTICLES
    /\ Len(funnel.scored_articles) = PER_RUN_MAX_ARTICLES
    /\ Len(funnel.summarized) = PER_RUN_MAX_SUMMARY

\* C14: no body fetch is started for a url that was in seen at url dedup
\* (seen is as the run found it until stage 9), and every embedding input and
\* summarization call of the run is for an article that has its content hash
\* and went through content dedup with a hash that was not in seen.
C14_DedupBeforeCost ==
    /\ pc \notin {"idle", "stage1"} =>
          /\ pc # "stage9" => seen = start.seen
          /\ \A i \in 1..Len(funnel.content) :
                funnel.content[i].task # "pending" =>
                    ~\E r \in start.seen : r.url = funnel.top_candidates[i].url
    /\ \A k \in 1..Len(calls) :
          (calls[k].run = run /\ calls[k].kind \in {"embed", "summarize"}) =>
              /\ pc \notin {"stage1", "stage2", "stage3", "stage4", "stage5"}
              /\ calls[k].content_hash = Sha256(Body(calls[k].url))
              /\ \E i \in 1..Len(funnel.hash_deduped) :
                    /\ funnel.hash_deduped[i].url = calls[k].url
                    /\ funnel.hash_deduped[i].title = calls[k].title
                    /\ funnel.hash_deduped[i].content_hash = calls[k].content_hash
              /\ ~\E r \in start.seen : r.content_hash = calls[k].content_hash

\* a later run: a listed url was in seen and was not fetched, a fetched
\* article was dropped by content dedup, and paid calls were made for the rest
C14_Witness ==
    /\ pc = "stage7"
    /\ run = 2
    /\ \E i \in 1..Len(funnel.all_articles) :
          \E r \in start.seen : r.url = funnel.all_articles[i].url
    /\ Len(funnel.hash_deduped) < Len(funnel.with_content)
    /\ \E k \in 1..Len(calls) : calls[k].run = run /\ calls[k].kind = "embed"
    /\ \E k \in 1..Len(calls) : calls[k].run = run /\ calls[k].kind = "summarize"

\* a task of this state has been created and has not returned
Running == {"pending", "fetching", "calling", "sending"}

FeedTasks == {feeds[s].task : s \in Sources}
ContentTasks == {funnel.content[i].task : i \in 1..Len(funnel.content)}
SummaryTasks == {funnel.summaries[i].task : i \in 1..Len(funnel.summaries)}
DeliveryTasks == {funnel.delivery[ch].task : ch \in Channels}

\* C15: while a task of a concurrent stage (feed fetch, article fetch,
\* summarization, delivery) has not returned, the run is still in that stage
\* and no task of a later stage exists; and seen is written by stage 9 only
\* when both delivery tasks have returned.
C15_StageBarrier ==
    /\ [](FeedTasks \cap Running # {} =>
            pc = "stage1" /\ ContentTasks = {} /\ SummaryTasks = {}
            /\ DeliveryTasks = {"idle"})
    /\ [](ContentTasks \cap Running # {} =>
            pc = "stage4" /\ SummaryTasks = {} /\ DeliveryTasks = {"idle"})
    /\ [](SummaryTasks \cap Running # {} =>
            pc = "summarize" /\ DeliveryTasks = {"idle"})
    /\ [](DeliveryTasks \cap Running # {} => pc = "deliver")
    /\ [][(pc = "stage9" /\ seen' # seen) => DeliveryTasks = {"done"}]_vars

\* stage 9 has written seen after both sends returned, in a run that had
\* feed, fetch and summarization tasks
C15_Witness ==
    /\ pc = "idle"
    /\ seen # start.seen
    /\ funnel.delivery["email"].task = "done"
    /\ funnel.delivery["slack"].task = "done"
    /\ Len(funnel.summaries) = PER_RUN_MAX_SUMMARY
    /\ Len(funnel.content) = PER_RUN_MAX_ARTICLES

\* ------------------------------------------------ claims on body fetches
\* the outbound fetches in flight: primary downloads and fallback GETs
InFlight ==
    fetch[<<"download", 0>>]
    + SumOver([k \in 1..(Len(Delays) + 1) |-> fetch[<<"get", k>>]],
              1..(Len(Delays) + 1))

\* C16 (as claimed): at every instant the outbound fetches in flight, primary
\* downloads and fallback GETs together, are at most the capacity of the
\* semaphore.
C16_FetchesWithinCapacity == InFlight <= SEM_CAPACITY

\* C17: a call of polite_get_async makes at most 4 GET attempts; a task that
\* has returned makes no further attempt; after the 4th failed attempt the
\* task returns None, and no exception leaves a task.
C17_BoundedRetry ==
    /\ [](\A p \in Positions : fetch[p] > 0 => p[2] <= Len(Delays))
    /\ [](\A p \in Positions : (p[1] = "gave_up" /\ fetch[p] > 0) => p[2] = Len(Delays))
    /\ [](\A p \in Positions : p[1] = "raised" => fetch[p] = 0)
    /\ [][\A p \in Returned : fetch'[p] >= fetch[p]]_vars

\* the batch is over: a task returned text, a task returned None for a page
\* without usable text, and two gave up after their 4th failed attempt
C17_Witness ==
    /\ \A p \in Positions : fetch[p] > 0 => p \in Returned
    /\ fetch[<<"text", 0>>] > 0
    /\ fetch[<<"none", 0>>] > 0
    /\ fetch[<<"gave_up", Len(Delays)>>] >= 2

\* ------------------------------------------------- claims on failures
\* C21: an embedding request that the provider fails, for the interest
\* profile or for the batch of articles, does not end the run: the run is not
\* left at stage 5 by the exception.
C21_EmbeddingErrorContained ==
    funnel.raised = "embedding" => pc # "aborted"

\* the key of the keyword sort
KeywordKey(a) == <<a.kw_score, PublishedKey(a.published)>>

\* the parts of C22 that do not depend on which articles count: without a
\* key no embedding request and no LLM call is answered or sent, the
\* embeddings table is as the run found it, the run is not left by an
\* exception of the scorer, and the report lists the summarized articles
\* by keyword score descending, then publish time descending
DegradedRun ==
    /\ \A k \in 1..Len(calls) : calls[k].kind \notin {"embed", "summarize"}
    /\ embeddings = start.embeddings
    /\ pc # "aborted"
    /\ funnel.saved =>
          /\ Len(funnel.report) = Len(funnel.summarized)
          /\ \A i \in 1..Len(funnel.report) :
                /\ funnel.report[i].url = funnel.summarized[i].url
                /\ funnel.report[i].title = funnel.summarized[i].title
          /\ \A i \in 1..Len(funnel.summarized), j \in 1..Len(funnel.summarized) :
                i < j => ~KeyGreater(KeywordKey(funnel.summarized[j]),
                                     KeywordKey(funnel.summarized[i]))

\* C22 as stated: with no credential no embedding or LLM call is issued, the
\* run reaches persist, the report is not empty whenever an unseen article
\* reached the keyword minimum and its fetch gave text, and the report is in
\* the order of the keyword sort.
C22_GracefulDegradation ==
    ~has_key =>
        /\ DegradedRun
        /\ (funnel.saved /\ \E i \in 1..Len(funnel.content) : funnel.content[i].text # "")
              => funnel.report # <<>>

\* C22, amended: the report is not empty whenever an article is left after
\* content dedup, that is whenever one of the fetched candidates gave a
\* text whose content hash is not in seen; the rest as stated.
C22_DegradationAfterDedup ==
    ~has_key =>
        /\ DegradedRun
        /\ (funnel.saved /\ \E i \in 1..Len(funnel.with_content) :
                ~is_hash_seen(start.seen, funnel.with_content[i].content_hash))
              => funnel.report # <<>>

\* a run without a key was persisted with a report of two articles of
\* different keyword scores, a third article left after content dedup cut
C22_Witness ==
    /\ ~has_key
    /\ pc = "idle"
    /\ Len(funnel.hash_deduped) = 3
    /\ Len(funnel.report) = 2
    /\ funnel.summarized[1].kw_score > funnel.summarized[2].kw_score

\* C23: once summarization has returned, the summarized list is the list
\* selected for summarization, article by article in the same order, each
\* with a summary that is the LLM's text or the extractive fallback; no
\* outcome of an LLM call removes an article.
C23_SummarizationKeepsArticles ==
    pc # "summarize" =>
        /\ Len(funnel.summarized) = Len(funnel.to_summarize)
        /\ \A i \in 1..Len(funnel.to_summarize) :
              /\ funnel.summarized[i].summary \in
                    {"llm", extractive_summarize(funnel.to_summarize[i].text)}
              /\ funnel.summarized[i] =
                    [funnel.to_summarize[i] EXCEPT
                        !.summary = funnel.summarized[i].summary]

\* two articles were selected, the LLM gave text for the second only, and
\* both are in the summarized list
C23_Witness ==
    /\ pc = "stage7"
    /\ has_key
    /\ Len(funnel.to_summarize) = 2
    /\ funnel.summarized[1].summary = "extractive"
    /\ funnel.summarized[2].summary = "llm"

C25_RunSavesReport ==
    (run >= 1 /\ pc \in {"idle", "aborted"}) => funnel.saved

\* ---------------------------------------------------- claims on scoring
\* C26: recency_score is 500 (0.5) without a publish time; with one it is
\* 1000 (1.0) when the article is not older than now, 0 when its age is the
\* maximum age or more, and in between 1 - age / max_age (the exact value
\* lies in the thousandth that ends at the result); it is within 0..1000 and
\* no older publish time has a higher score.
C26_RecencyScore ==
    score_call.n = 1 =>
        LET published == score_call.published
            max_age == score_call.max_age
            result == score_call.result
            age == score_call.now_dt - published
        IN IF published = NULL THEN result = 500
           ELSE /\ result \in 0..1000
                /\ age <= 0 => result = 1000
                /\ age >= max_age => result = 0
                /\ (0 < age /\ age < max_age) =>
                      /\ result * max_age >= 1000 * (max_age - age)
                      /\ (result - 1) * max_age < 1000 * (max_age - age)
                /\ \A older \in ScoreTimes :
                      older <= published =>
                          recency_score(older, score_call.now_dt, max_age) <= result

\* a call for an article of an age between 0 and the maximum age, scored
\* strictly between 0 and 1
C26_Witness ==
    /\ score_call.n = 1
    /\ score_call.published # NULL
    /\ score_call.now_dt - score_call.published = 3
    /\ score_call.max_age = 4
    /\ score_call.result = 250

\* ------------------------------------------- claims on concurrent writers
\* one call made alone, from its first statement to its last
apply_call(tables, call, t) ==
    CASE call.op = "failure" ->
            [tables EXCEPT !.source_health =
                record_source_failure(@, call.url, DISABLE_AFTER_N, t)]
      [] call.op = "success" ->
            [tables EXCEPT !.source_health = record_source_success(@, call.url, t)]
      [] OTHER ->
            [tables EXCEPT !.seen =
                mark_seen(@, call.url, call.title, call.content_hash, t).rows]

RECURSIVE apply_in_order(_, _, _)
apply_in_order(tables, ordered, t) ==
    IF ordered = <<>> THEN tables
    ELSE apply_in_order(apply_call(tables, Head(ordered), t), Tail(ordered), t)

\* the tables every sequential order of the tasks' calls ends with
SerialResults ==
    LET n == Len(writers)
        orders == {f \in [1..n -> 1..n] : \A a, b \in 1..n : f[a] = f[b] => a = b}
    IN {apply_in_order([source_health |-> start.source_health, seen |-> start.seen],
                       [k \in 1..n |-> writers[f[k]].call], now) : f \in orders}

WritersDone == writers # <<>> /\ \A i \in 1..Len(writers) : writers[i].at = "done"

\* C27: when the concurrent calls have all returned, source_health and seen
\* are what some sequential order of the calls gives; no row has a counter
\* of 0 with a cool-down deadline; and a source that had failures only has
\* every one of them counted.
C27_WritersSerializable ==
    WritersDone =>
        /\ [source_health |-> source_health, seen |-> seen] \in SerialResults
        /\ \A s \in Sources :
              ~(source_health[s].consecutive_failures = 0
                /\ source_health[s].disabled_until_ts # NULL)
        /\ \A s \in Sources :
              (\A i \in 1..Len(writers) :
                  writers[i].call.url = s => writers[i].call.op = "failure") =>
                 source_health[s].consecutive_failures =
                    start.source_health[s].consecutive_failures
                    + Cardinality({i \in 1..Len(writers) : writers[i].call.url = s})

\* ------------------------------------------------- claims on the ranking
\* the summarized list as a function of what the run was given: the stores
\* as it found them, each feed's entries, each body fetch's text and each
\* summarization's text, every one taken at its task's position
ExpectedSummarized ==
    LET all_articles ==
            Concat([i \in 1..Len(SourceList) |-> feeds[SourceList[i]].result])
        kept == url_dedup(all_articles, start.seen)
        top == keyword_filter([i \in 1..Len(kept) |-> Candidate(kept[i])])
        fetched == SelectSeq([i \in 1..Len(top) |->
                                 with_text(top[i], funnel.content[i].text)],
                             LAMBDA r : r.text # "")
        deduped == content_dedup(fetched, start.seen)
        scored == IF Len(deduped) > 0 /\ has_key
                  THEN score_articles_batch(deduped, TopicSet(cfg_topics), now)
                  ELSE keyword_only_sort(deduped)
        selected == Take(scored, PER_RUN_MAX_SUMMARY)
    IN [i \in 1..Len(selected) |->
          [selected[i] EXCEPT !.summary =
              IF has_key THEN funnel.summaries[i].summary
              ELSE extractive_summarize(selected[i].text)]]

\* C28: the report lists the articles that the feeds' entries, the stored
\* state and the fetched and returned texts determine, in the order they
\* determine: the order in which the feed fetches, body fetches and
\* summarizations finished has no part in it.
C28_RankingIgnoresCompletionOrder ==
    funnel.saved => funnel.report = build_report(ExpectedSummarized)

\* a report of two articles was saved in a run whose second summarization
\* finished before its first
C28_Witness ==
    /\ pc = "stage8"
    /\ funnel.saved
    /\ Len(funnel.report) = 2
    /\ funnel.finished = <<2, 1>>

\* --------------------------------------------- claims on the candidates
\* the lists of the funnel before the body fetch, and from it on
ListsBeforeFetch == {funnel.unseen, funnel.top_candidates}
ListsWithContent ==
    {funnel.with_content, funnel.hash_deduped, funnel.scored_articles,
     funnel.to_summarize, funnel.summarized}

\* C29: in every list of the funnel a candidate with a content hash has a
\* text that is not empty and the hash is the SHA-256 digest of that text;
\* every candidate of the lists that content dedup, scoring, summarization
\* and persist read has both, and a row that stage 9 added to seen holds the
\* digest of its article's text.
C29_HashIsDigestOfText ==
    /\ \A list \in ListsBeforeFetch \cup ListsWithContent :
          \A i \in 1..Len(list) :
              list[i].content_hash # <<>> =>
                  /\ list[i].text # ""
                  /\ list[i].content_hash = Sha256(list[i].text)
    /\ \A list \in ListsWithContent :
          \A i \in 1..Len(list) :
              list[i].text # "" /\ list[i].content_hash # <<>>
    /\ \A row \in seen \ start.seen :
          \E i \in 1..Len(funnel.summarized) :
              /\ row.url = funnel.summarized[i].url
              /\ row.content_hash = Sha256(funnel.summarized[i].text)

\* a run persisted two articles of different texts
C29_Witness ==
    /\ pc = "idle"
    /\ Len(funnel.summarized) = 2
    /\ funnel.summarized[1].text # funnel.summarized[2].text
    /\ Cardinality({row.content_hash : row \in seen \ start.seen}) = 2

\* the urls of a list of articles
UrlsOf(list) == {list[i].url : i \in 1..Len(list)}

Stage3Score(a) == keyword_score(a.description, a.title, TopicSet(cfg_topics))

\* a stands before b in the order of stage 3: a higher keyword score, or the
\* same score and a later publish time, an undated entry being the earliest
RanksBefore(a, b) ==
    \/ a.kw_score > b.kw_score
    \/ /\ a.kw_score = b.kw_score
       /\ a.published # NULL
       /\ (b.published = NULL \/ a.published > b.published)

\* C31: once stage 3 has run, the candidates are unseen entries whose keyword
\* score over title and description is at least min_score, none of them
\* twice; they stand by keyword score descending, then publish time
\* descending with undated entries last; they are per_run_max_articles many,
\* or all that reach the minimum if those are fewer; no entry left out
\* stands before one that was taken; and the body fetch has one task per
\* candidate and returns none but candidates.
C31_Stage3Selection ==
    LET U == funnel.unseen
        T == funnel.top_candidates
        eligible == {i \in 1..Len(U) : Stage3Score(U[i]) >= MIN_SCORE}
        scoredU == [i \in 1..Len(U) |-> [U[i] EXCEPT !.kw_score = Stage3Score(U[i])]]
        chosen == {i \in eligible : \E k \in 1..Len(T) : T[k] = scoredU[i]}
    IN pc \notin {"stage1", "stage2", "stage3"} =>
        /\ Len(T) = Min(Cardinality(eligible), PER_RUN_MAX_ARTICLES)
        /\ \A k \in 1..Len(T) : \E i \in eligible : T[k] = scoredU[i]
        /\ \A k \in 1..Len(T), l \in 1..Len(T) :
              k < l => T[k] # T[l] /\ ~RanksBefore(T[l], T[k])
        /\ \A i \in eligible \ chosen, k \in 1..Len(T) :
              ~RanksBefore(scoredU[i], T[k])
        /\ Len(funnel.content) = Len(T)
        /\ \A j \in 1..Len(funnel.with_content) :
              \E k \in 1..Len(T) :
                  funnel.with_content[j] =
                      with_text(T[k], funnel.with_content[j].text)

\* both feeds came: of five unseen entries one is under the minimum, four
\* reach it, and the three taken end with an undated entry that has the
\* score of the dated one before it; the bodies have been fetched
C31_Witness ==
    /\ pc = "stage5"
    /\ Len(funnel.unseen) = 5
    /\ Len(funnel.top_candidates) = 3
    /\ funnel.top_candidates[2].kw_score = funnel.top_candidates[3].kw_score
    /\ funnel.top_candidates[2].published # NULL
    /\ funnel.top_candidates[3].published = NULL
    /\ Len(funnel.with_content) = 3

\* ------------------------------------------- claims on the concurrent stages
\* the entries of the sources from the i-th on, in the order of sources: what
\* its feed lists for a source whose fetch returned them, nothing for a
\* source that was skipped or whose fetch failed
RECURSIVE EntriesFrom(_)
EntriesFrom(i) ==
    IF i > Len(SourceList) THEN <<>>
    ELSE (IF feeds[SourceList[i]].task = "done" /\ feeds[SourceList[i]].outcome = "ok"
          THEN Feed(SourceList[i]) ELSE <<>>) \o EntriesFrom(i + 1)

\* the candidates whose body fetch gave a text, and the j-th of them
GotText == {i \in 1..Len(funnel.content) : funnel.content[i].text # ""}
NthGotText(j) == CHOOSE i \in GotText : Cardinality({h \in GotText : h < i}) = j - 1

NoUrlTwice(list) ==
    \A i \in 1..Len(list), j \in 1..Len(list) : i < j => list[i].url # list[j].url

\* C33: a url that the feeds list more than once in a run is fetched by at
\* most one body-fetch task, is summarized at most once and stands at most
\* once in the report of that run.
C33_DuplicateUrlOnce ==
    /\ NoUrlTwice(funnel.top_candidates)
    /\ NoUrlTwice(funnel.to_summarize)
    /\ NoUrlTwice(funnel.summarized)
    /\ NoUrlTwice(funnel.report)

\* ------------------------------------------- claims on the configuration
\* C34: with an empty topic list and min_score above 0 the keyword score of
\* every entry is 0, stage 3 admits no candidate, no body fetch task is made,
\* no embedding or summarization call is made and the embeddings table stays
\* as it was, the report saved is empty and seen gets no row, in the
\* connection and in the file.
C34_NoTopicsNoCandidates ==
    (cfg_topics = <<>> /\ MIN_SCORE > 0) =>
        /\ \A i \in 1..Len(funnel.unseen) :
              /\ keyword_score(funnel.unseen[i].description, funnel.unseen[i].title,
                               TopicSet(cfg_topics)) = 0
              /\ keyword_score(Body(funnel.unseen[i].url), funnel.unseen[i].title,
                               TopicSet(cfg_topics)) = 0
        /\ funnel.top_candidates = <<>>
        /\ funnel.content = <<>>
        /\ funnel.with_content = <<>>
        /\ \A k \in 1..Len(calls) : calls[k].kind \notin {"embed", "summarize"}
        /\ embeddings = {} /\ disk.embeddings = {}
        /\ funnel.summaries = <<>> /\ funnel.summarized = <<>>
        /\ funnel.report = <<>>
        /\ seen = {} /\ disk.seen = {}

\* with no topic and a key, a second run over five unseen entries has saved
\* an empty report and has ended
C34_Witness ==
    /\ cfg_topics = <<>>
    /\ has_key
    /\ run = 2
    /\ pc = "idle"
    /\ Len(funnel.unseen) = 5
    /\ funnel.saved
    /\ funnel.report = <<>>
    /\ funnel.delivery_results["email"]

\* ------------------------------------------------- claims on the commit
\* the tables as the connection of the run sees them
Tables == [seen |-> seen, source_health |-> source_health, embeddings |-> embeddings]

\* C35: from the start of a run until the commit of stage 9 the file holds
\* seen, embeddings and source_health as the run found them, whatever the
\* run has written, so a run that is left by an exception leaves them so;
\* the commit of stage 9 puts all that the run wrote into the file; and the
\* next run starts from the file: what an aborted run wrote, the failures it
\* recorded for sources among it, is not in the tables the next run reads.
C35_SingleCommit ==
    /\ pc # "idle" => disk = start
    /\ pc = "idle" => disk = Tables
    /\ pc = "stage1" =>
          /\ seen = disk.seen
          /\ embeddings = disk.embeddings
          /\ \A s \in Sources :
                feeds[s].task # "done" => source_health[s] = disk.source_health[s]

\* a run was left at stage 5 after it recorded a failure of the first source
\* and stored the embedding of the topic: neither is in the file
C35_Witness ==
    /\ pc = "aborted"
    /\ source_health["s1"].consecutive_failures
          > disk.source_health["s1"].consecutive_failures
    /\ embeddings # disk.embeddings
    /\ disk = start

\* ------------------------------------------------- claims on the cool-down
\* the row of s holds a deadline that has passed
CooldownExpired(s) ==
    /\ source_health[s].present
    /\ source_health[s].disabled_until_ts # NULL
    /\ now >= source_health[s].disabled_until_ts

\* C36: the passing of time and is_source_disabled leave every row as it
\* is; a row whose deadline has passed still holds that deadline and a
\* counter of at least disable_after_n; and record_source_failure on such a
\* row counts one more, sets the deadline to 24h after the call and the
\* source is disabled again at once.
C36_ExpiryKeepsCounter ==
    /\ [](\A s \in Sources :
            CooldownExpired(s) =>
                source_health[s].consecutive_failures >= DISABLE_AFTER_N)
    /\ [][(now' # now \/ probe' # NoProbe) => source_health' = source_health]_vars
    /\ [][\A s \in Sources :
            (CooldownExpired(s) /\ hist'[s] # hist[s] /\ hist'[s].last = "failure") =>
                /\ source_health'[s].consecutive_failures
                      = source_health[s].consecutive_failures + 1
                /\ source_health'[s].disabled_until_ts = now + COOLDOWN_SECS
                /\ ~is_source_disabled(source_health, s, now)
                /\ is_source_disabled(source_health', s, now')]_vars

\* five failures disabled the first source, the cool-down passed, and the
\* sixth failure in a row has set a deadline 24h after it
C36_Witness ==
    /\ hist["s1"].streak = DISABLE_AFTER_N + 1
    /\ hist["s1"].last = "failure"
    /\ ~hist["s1"].was_disabled
    /\ hist["s1"].at >= COOLDOWN_SECS
    /\ now = hist["s1"].at
    /\ source_health["s1"].consecutive_failures = DISABLE_AFTER_N + 1
    /\ source_health["s1"].disabled_until_ts = now + COOLDOWN_SECS

\* ------------------------------------------------- claims on the permits
\* the tasks inside polite_get_async's "async with semaphore": asleep before
\* an attempt (the first 0.3 s or a back-off) or with a GET in flight
InsideSemaphore == {p \in Positions : p[1] \in {"pause", "get"}}

\* C37: the permits taken are as many as the tasks inside polite_get_async,
\* one each from the sleep before the first attempt through every GET and
\* every back-off sleep; they are between 0 and 5; and once every task of
\* the batch has returned, with text, without, or after its last attempt
\* failed, none is taken.
C37_OnePermitPerFetch ==
    /\ SEM_CAPACITY - sem = SumOver(fetch, InsideSemaphore)
    /\ sem \in 0..SEM_CAPACITY
    /\ (\A p \in Positions \ Returned : fetch[p] = 0) => sem = SEM_CAPACITY

\* every permit is taken, one of them by a task asleep after its first
\* failed attempt and one by a task in its last attempt, and a sixth task
\* waits to enter
C37_Witness ==
    /\ sem = 0
    /\ fetch[<<"pause", 1>>] >= 1
    /\ fetch[<<"get", Len(Delays)>>] >= 1
    /\ fetch[<<"wait", 0>>] >= 1

\* ------------------------------------------------- claims on the cache key
\* the row of the table with this key
RowOf(tbl, cache_key) == CHOOSE r \in tbl : r.cache_key = cache_key

\* C38: two texts have the same cache key exactly if they agree on their
\* first 500 characters. In a batch that returned, a text whose key is in
\* the table, stored for that text or for another one of the same key, is
\* not sent to the provider and gets the stored vector; the texts whose key
\* is not in the table are sent in one request, texts of the same key among
\* them, each gets the provider's vector for itself, and the table then
\* holds for the key the vector of the last of them.
C38_CacheKeyCollision ==
    LET texts == embed_call.texts
        batch == embed_call.batch
        before == embed_call.before
        key(i) == _cache_key(EmbeddingModel, texts[i])
        hit(i) == \E r \in before : r.cache_key = key(i)
        last(i) == CHOOSE h \in 1..Len(texts) :
                      /\ key(h) = key(i)
                      /\ \A g \in 1..Len(texts) : key(g) = key(i) => g <= h
    IN
    /\ \A t1 \in EmbedTexts, t2 \in EmbedTexts :
          (_cache_key(EmbeddingModel, t1) = _cache_key(EmbeddingModel, t2))
              <=> (Truncate(t1, 500) = Truncate(t2, 500))
    /\ (embed_call.op = "batch" /\ ~batch.raised) =>
          /\ Len(batch.requests) <= 1
          /\ \A i \in 1..Len(texts) :
                /\ hit(i) =>
                      /\ \A j \in 1..Len(batch.misses) : batch.misses[j] # i
                      /\ batch.results[i] = json_loads(RowOf(before, key(i)).vector)
                      /\ RowOf(batch.rows, key(i)) = RowOf(before, key(i))
                /\ ~hit(i) =>
                      /\ Len(batch.requests) = 1
                      /\ \E j \in 1..Len(batch.misses) :
                            /\ batch.misses[j] = i
                            /\ batch.requests[1][j] = texts[i]
                      /\ batch.results[i] = ProviderVector(texts[i])
                      /\ Cardinality({r \in batch.rows : r.cache_key = key(i)}) = 1
                      /\ RowOf(batch.rows, key(i)).vector
                            = json_dumps(ProviderVector(texts[last(i)]))

\* the long text L2 was asked for after the provider's vector of L1, which
\* has the same first 500 characters, was stored: no request was made and L2
\* got the vector of L1
C38_Witness ==
    /\ embed_call.op = "batch"
    /\ embed_call.texts = <<"L2">>
    /\ \E r \in embed_call.before :
          /\ r.cache_key = _cache_key(EmbeddingModel, "L1")
          /\ r.vector = json_dumps(ProviderVector("L1"))
    /\ embed_call.batch.requests = <<>>
    /\ embed_call.batch.results = <<ProviderVector("L1")>>
    /\ ProviderVector("L1") # ProviderVector("L2")

\* L1 and L2 missed in one batch: one request held both, each got its own
\* vector and the table holds the vector of L2, stored last
C38_BothMiss ==
    /\ embed_call.op = "batch"
    /\ embed_call.texts = <<"L1", "L2">>
    /\ embed_call.batch.requests = << <<"L1", "L2">> >>
    /\ embed_call.batch.results = <<ProviderVector("L1"), ProviderVector("L2")>>
    /\ \A r \in embed_call.batch.rows : r.vector = json_dumps(ProviderVector("L2"))

====
